---- MODULE Spec2Model ----
(***************************************************************************)
(* Benchmark executor of customer-service-llm                              *)
(* (src/benchmark/src/benchmark/executor.py).                              *)
(*                                                                         *)
(* run_benchmark creates one asyncio task per model id; every task runs    *)
(* _run_model_benchmark under a semaphore of concurrent_models permits.    *)
(* The event loop is cooperative: a task runs without interruption from    *)
(* one suspension point (semaphore wait, asyncio.sleep, generate_response, *)
(* execute_tool_call) to the next, so every action below is one such       *)
(* uninterrupted segment of a coroutine.                                    *)
(***************************************************************************)
EXTENDS Integers, Sequences, FiniteSets, TLC

\* ----------------------------------------------------------------- bounds
MaxModels == 3       \* longest model_ids list
MaxTests == 2        \* longest test_cases list
MaxToolCalls == 1    \* most tool calls in one model response
MaxConcurrent == 2   \* largest concurrent_models
MaxDelay == 2        \* largest rate_limit_delay, in clock ticks
MaxLoad == 5         \* largest Load of the inputs of one run
MaxFaults == 2       \* most failures the environment produces in one run
MaxJudges == 2       \* most judges that evaluate one TestResult
MaxEntries == 2      \* most members, counting text around the object and
                     \* judges after the first, in the responses of the judges
MaxArgLen == 4       \* longest arguments string of a tool call

\* ----------------------------------------------------------------- inputs
\* Model ids a caller may pass.  ConfiguredIds are the entries of the models
\* configuration, in a fixed order; "ghost" is not configured.
ConfiguredIds == <<"alpha", "beta", "gamma", "delta", "epsilon">>
Configured == {ConfiguredIds[k] : k \in DOMAIN ConfiguredIds}
ModelIdSet == Configured \cup {"ghost"}
TestIdPool == <<"tc_a", "tc_b", "tc_c", "tc_d">>

None == "None"
NoResponse == [content |-> "", error |-> None, tool_calls |-> <<>>]

\* Ways the arguments of a tool call arrive (executor.py:261,267).
ArgKinds == {"dict", "garbage"}

VARIABLES
    models_config,       \* ProviderFactory.models_config: "loaded" or "empty"
    config,              \* BenchmarkConfig + the executor's constructor arguments
    test_cases,          \* run_benchmark argument: sequence of test case ids
    models_to_test,      \* BenchmarkRun.models_to_test
    model_results,       \* BenchmarkRun.model_results
    run_status,          \* BenchmarkRun.status
    run_pc,              \* position of run_benchmark
    run_error,           \* where run_benchmark's try block raised, if it did
    semaphore,           \* free permits of the asyncio.Semaphore
    time_since_last,     \* per model id: time.time() - last_request_time[id]
                         \* as the model's next _apply_rate_limit reads it
    faults,              \* failures the environment has produced so far
    task,                \* one _run_model_benchmark coroutine per model index
    progress,            \* the BenchmarkProgress last passed to the callback
    storage,             \* calls of _save_benchmark_results, and the status
                         \* in each BenchmarkRun file they wrote
    judging,             \* the evaluation of one TestResult by the judges
    tool_call_info,      \* the tool loop of _run_single_test at one response
    batch,               \* evaluate_benchmark_run of one judge
    multi                \* the evaluations of several judges, their
                         \* consensus and their agreement

vars == <<models_config, config, test_cases, models_to_test, model_results,
          run_status, run_pc, run_error, semaphore, time_since_last,
          faults, task, progress, storage, judging, tool_call_info,
          batch, multi>>

inputs == <<models_config, config, test_cases, models_to_test>>

\* Time is kept relative.  The code compares time.time() - last_request
\* with rate_limit_delay only, so every duration saturates at that delay;
\* a model id without an entry has last_request = 0 (executor.py:224) and
\* a saturated duration.  The entry of a model whose coroutine has returned
\* is read by no later _apply_rate_limit of the run; it is held at the
\* saturated value it would reach rate_limit_delay later.
Saturate(d) == IF d > config.rate_limit_delay THEN config.rate_limit_delay ELSE d

\* --------------------------------------------------------------- helpers
Range(s) == {s[k] : k \in DOMAIN s}

Injective(s) == \A a, b \in DOMAIN s : s[a] = s[b] => a = b

\* Position of a configured id in ConfiguredIds (0 for any other id).
Rank(id) ==
    IF id \in Configured
    THEN CHOOSE k \in DOMAIN ConfiguredIds : ConfiguredIds[k] = id
    ELSE 0

\* Lists of distinct model ids.  Configured ids are interchangeable, so a
\* list uses the first ones, in order; "ghost" may stand at any position.
ModelLists ==
    {s \in UNION {[1..n -> ModelIdSet] : n \in 1..MaxModels} :
        /\ Injective(s)
        /\ \A a \in DOMAIN s :
              s[a] \in Configured =>
                 Rank(s[a]) = Cardinality({b \in 1..a : s[b] \in Configured})}

TestLists == {SubSeq(TestIdPool, 1, n) : n \in 1..MaxTests}

Configs ==
    [concurrent_models : 1..MaxConcurrent,
     rate_limit_delay : 1..MaxDelay,
     include_tool_execution : BOOLEAN,
     save_intermediate_results : BOOLEAN,
     progress_callback : BOOLEAN]

\* Generation calls a run can issue: one per test, and one more per tool
\* call when tools are executed.
CallsOf(cfg, models, tests) ==
    Len(models) * Len(tests)
      * (IF cfg.include_tool_execution THEN 1 + MaxToolCalls ELSE 1)

\* Size of the inputs of a run: the generation calls it can issue, and one
\* for every step a configuration option is away from the plainest
\* configuration (one worker at a time, a delay of one tick, no file per
\* model, no callback).
Load(cfg, models, tests) ==
    CallsOf(cfg, models, tests)
      + (cfg.concurrent_models - 1)
      + (cfg.rate_limit_delay - 1)
      + (IF cfg.save_intermediate_results THEN 1 ELSE 0)
      + (IF cfg.progress_callback THEN 1 ELSE 0)

\* A failure of the environment (a timeout, an exception, an error payload,
\* unusable tool arguments) can happen while fewer than MaxFaults have.
MayFail(n) == faults + n <= MaxFaults

ToolCallLists ==
    UNION {[1..n -> ArgKinds] : n \in 0..MaxToolCalls}

ModelId(i) == models_to_test[i]

\* ProviderFactory.get_model_config: the entry of the models map, or None.
get_model_config(model_id) ==
    IF model_id \in Configured THEN "config" ELSE None

\* ProviderFactory.get_provider: a provider instance, or None.
get_provider(model_id) ==
    IF model_id \in Configured THEN "provider" ELSE None

\* A fresh ModelBenchmarkResults (models.py:31-40).
ModelBenchmarkResults(model_id) ==
    [model_id |-> model_id,
     status |-> "pending",
     test_results |-> <<>>,
     start_time |-> None,
     end_time |-> None]

\* A coroutine created by asyncio.create_task and not yet run.
NewTask ==
    [pc |-> "acquire",       \* suspension point the coroutine is at
     t |-> 0,                \* index of the test case in the for loop
     stage |-> None,         \* "initial" or "followup" generation call
     wait_time |-> 0,        \* what is left of the asyncio.sleep in progress
     response |-> NoResponse,\* `response` of _run_single_test
     k |-> 0,                \* index of the tool call being handled
     tool_calls_made |-> <<>>,
     tool_results |-> <<>>,
     test_results |-> <<>>,  \* the local list of _run_model_benchmark
     requests |-> 0,         \* generation calls issued by this worker
     calls |-> 0,            \* generation calls issued for the test at hand
     since_done |-> 0,       \* time since the last generation call ended
     duration |-> 0,         \* how long that call took
     gap |-> 0,              \* call in flight: time_since_last when issued
     done_gap |-> 0,         \* call in flight: since_done when issued
     prev_duration |-> 0,    \* call in flight: duration of the call before
     timed_out |-> {},       \* tests whose initial generation call timed out
     raised |-> {},          \* tests whose initial generation call raised
     followup_timed_out |-> {},  \* tests with a follow-up call that timed out
     saved |-> 0]            \* writes of this model's intermediate file

\* The part of the state one worker segment reads and writes.
Ctx(i) ==
    [model_index |-> i,
     w |-> task[i],
     mr |-> model_results[i],
     since |-> time_since_last[ModelId(i)],
     sem |-> semaphore,
     progress |-> progress]

Commit(i, c) ==
    /\ task' = [task EXCEPT ![i] = c.w]
    /\ model_results' = [model_results EXCEPT ![i] = c.mr]
    /\ time_since_last' = [time_since_last EXCEPT ![ModelId(i)] = c.since]
    /\ semaphore' = c.sem
    /\ progress' = c.progress

\* ----------------------------------------------- _apply_rate_limit + call
\* executor.py:232 followed by the generate_response call that the caller
\* starts next (executor.py:246 or 293): the coroutine suspends in the call.
IssueRequest(c) ==
    [c EXCEPT !.since = 0,
              !.w.pc = "gen",
              !.w.requests = c.w.requests + 1,
              !.w.calls = c.w.calls + 1,
              !.w.gap = c.since,
              !.w.done_gap = c.w.since_done,
              !.w.prev_duration = c.w.duration,
              !.w.since_done = 0,
              !.w.duration = 0]

WaitTimeNone(since) == 0

\* executor.py:226-228
WaitTime(since) == config.rate_limit_delay - since

RateLimitFirstOnly(c, stage) ==
    LET d == [c EXCEPT !.w.stage = stage]
    IN IF c.since < config.rate_limit_delay /\ stage = "initial"
       THEN [d EXCEPT !.w.pc = "rl_sleep", !.w.wait_time = WaitTime(c.since)]
       ELSE IssueRequest(d)

\* executor.py:222-232.  With time_since_last < rate_limit_delay the
\* coroutine suspends in asyncio.sleep(wait_time).
_apply_rate_limit(c, stage) ==
    LET d == [c EXCEPT !.w.stage = stage]
    IN IF c.since < config.rate_limit_delay
       THEN [d EXCEPT !.w.pc = "rl_sleep", !.w.wait_time = WaitTime(c.since)]
       ELSE IssueRequest(d)

\* ------------------------------------------------------- TestResult values
TestResult(c, response, tool_calls_made, tool_results, error) ==
    [kind |-> "TestResult",
     test_case_id |-> test_cases[c.w.t],
     model_id |-> c.mr.model_id,
     model_response |-> [content |-> response.content, error |-> response.error],
     tool_calls_made |-> tool_calls_made,
     tool_results |-> tool_results,
     error |-> error]

\* executor.py:312-322
NormalResult(c) ==
    TestResult(c, c.w.response, c.w.tool_calls_made, c.w.tool_results, None)

TimeoutAsException(c) ==
    TestResult(c, [content |-> "", error |-> "str(e)"], <<>>, <<>>, "str(e)")

\* executor.py:324-342
TimeoutResult(c) ==
    TestResult(c, [content |-> "", error |-> "Timeout"], <<>>, <<>>,
               "Test timed out")

ExceptionPropagates(c) == [kind |-> "Exception"]

\* executor.py:344-363
ExceptionResult(c) ==
    TestResult(c, [content |-> "", error |-> "str(e)"], <<>>, <<>>, "str(e)")

ExceptionEntry == [kind |-> "Exception"]

SelectSuccessful(s) ==
    SelectSeq(s, LAMBDA r : r.kind = "TestResult" /\ r.error = None)

\* executor.py:195-199: only the TestResult entries of the local list.
SelectTestResults(s) == SelectSeq(s, LAMBDA r : r.kind = "TestResult")

\* ------------------------------------------------------ progress snapshots
RECURSIVE SumLen(_, _)
SumLen(lists, n) ==
    IF n = 0 THEN 0 ELSE Len(lists[n]) + SumLen(lists, n - 1)

\* sum(len(mr.test_results) for mr in self.current_run.model_results), as
\* seen inside a segment of the coroutine of c (executor.py:179, 441).
StoredResults(c) ==
    SumLen([j \in DOMAIN model_results |->
               IF j = c.model_index THEN c.mr.test_results
               ELSE model_results[j].test_results],
           Len(model_results))

\* len(test_cases) * len(models_to_test) (executor.py:89, 178, 442).
TotalTests == Len(test_cases) * Len(models_to_test)

Min(a, b) == IF a < b THEN a ELSE b

\* BenchmarkProgress (models.py:69-77): the counts, and the percentage in
\* whole per cent.
BenchmarkProgress(completed_tests, percentage) ==
    [total_tests |-> TotalTests,
     completed_tests |-> completed_tests,
     progress_percentage |-> percentage]

\* Before the first call of the callback (total_tests of a snapshot is
\* never 0: the lists of a run are not empty).
NoProgress ==
    [total_tests |-> 0, completed_tests |-> 0, progress_percentage |-> 0]

\* executor.py:178-188: the snapshot after a test, from the stored results
\* and the length of the worker's local list.
TestProgress(c) ==
    LET completed_tests == StoredResults(c) + Len(c.w.test_results)
    IN BenchmarkProgress(completed_tests,
                         (completed_tests * 100) \div TotalTests)

\* executor.py:441-454: the snapshot of _update_progress.
UpdateProgress(c) ==
    LET completed_tests == StoredResults(c)
    IN BenchmarkProgress(completed_tests,
                         Min(100, (completed_tests * 100) \div TotalTests))

\* ------------------------------------------------- _run_model_benchmark
\* executor.py:216-220 and the exit of `async with semaphore`.
FailModel(c) ==
    [c EXCEPT !.mr.status = "failed",
              !.mr.end_time = "set",
              !.w.pc = "done",
              !.w.since_done = 0,
              !.w.duration = 0,
              !.since = config.rate_limit_delay,
              !.sem = c.sem + 1]

\* The exit of `async with semaphore` on the normal path.
ReleaseAndReturn(c) ==
    [c EXCEPT !.w.pc = "done",
              !.w.since_done = 0,
              !.w.duration = 0,
              !.since = config.rate_limit_delay,
              !.sem = c.sem + 1]

\* executor.py:214 with _update_progress (437-456): without a callback it
\* returns at once, otherwise the coroutine is inside the callback.
CallUpdateProgress(c) ==
    IF config.progress_callback
    THEN [c EXCEPT !.w.pc = "update", !.progress = UpdateProgress(c)]
    ELSE ReleaseAndReturn(c)

\* executor.py:195-210: the results are copied, the status is set, and the
\* intermediate file is written if configured.  The file write and the
\* callback are calls out of the coroutine: the state they are entered in
\* is the state the file records and the callback can observe.
FinishModel(c) ==
    LET copied == [c EXCEPT
                     !.mr.test_results = c.mr.test_results \o
                                         SelectTestResults(c.w.test_results),
                     !.mr.status = "completed",
                     !.mr.end_time = "set"]
    IN IF config.save_intermediate_results
       THEN [copied EXCEPT !.w.pc = "save"]
       ELSE CallUpdateProgress(copied)

\* executor.py:170-174: the next iteration of the for loop, up to the first
\* suspension of _apply_rate_limit or of the initial generate_response.
BeginTest(c, t) ==
    _apply_rate_limit(
        [c EXCEPT !.w.t = t,
                  !.w.calls = 0,
                  !.w.response = NoResponse,
                  !.w.k = 0,
                  !.w.tool_calls_made = <<>>,
                  !.w.tool_results = <<>>],
        "initial")

RunTestsFrom(c, t) ==
    IF t <= Len(test_cases) THEN BeginTest(c, t) ELSE FinishModel(c)

\* executor.py:175-189: _run_single_test returned `result` and its locals
\* are gone; with a callback configured the coroutine is inside the
\* callback next.
TestReturned(c, result) ==
    LET d == [c EXCEPT !.w.test_results = Append(c.w.test_results, result),
                       !.w.stage = None,
                       !.w.calls = 0,
                       !.w.response = NoResponse,
                       !.w.k = 0,
                       !.w.tool_calls_made = <<>>,
                       !.w.tool_results = <<>>]
    IN IF config.progress_callback
       THEN [d EXCEPT !.w.pc = "callback", !.progress = TestProgress(d)]
       ELSE RunTestsFrom(d, c.w.t + 1)

CallbackRetries(c, raised) ==
    RunTestsFrom(
        IF raised
        THEN [c EXCEPT !.w.test_results = Append(c.w.test_results, ExceptionEntry)]
        ELSE c,
        IF raised THEN c.w.t ELSE c.w.t + 1)

\* executor.py:189-193: the callback returned, or raised into the loop's
\* except clause, which appends the exception to the local list.
CallbackReturned(c, raised) ==
    RunTestsFrom(
        IF raised
        THEN [c EXCEPT !.w.test_results = Append(c.w.test_results, ExceptionEntry)]
        ELSE c,
        c.w.t + 1)

\* ------------------------------------------------------ _run_single_test
\* safe_json_loads and ToolCall(...) (executor.py:257-269): arguments that
\* are a dict or a parseable string give a ToolCall, anything else raises.
NormalizeRaises(kind) == kind = "garbage"

\* executor.py:255-271 and 306-310: the for loop over response.tool_calls
\* from index k, up to the next execute_tool_call or to the end of the test.
RECURSIVE ToolLoopFrom(_, _)
ToolLoopFrom(c, k) ==
    IF k > Len(c.w.response.tool_calls)
    THEN TestReturned(c, NormalResult(c))
    ELSE IF NormalizeRaises(c.w.response.tool_calls[k])
    THEN ToolLoopFrom(
             [c EXCEPT !.w.tool_results =
                           Append(c.w.tool_results, [call |-> k, error |-> TRUE])],
             k + 1)
    ELSE [c EXCEPT !.w.pc = "tool", !.w.k = k]

\* executor.py:245 and 293-296: the tool declarations passed with the
\* generation call of a stage; the follow-up call passes none.
tools(stage) ==
    IF stage = "initial" /\ config.include_tool_execution
    THEN "database_tools"
    ELSE None

\* The initial response arrived, and its tool calls are executed whatever
\* the configuration says.
InitialResponseToolsAlways(c, response) ==
    LET d == [c EXCEPT !.w.response = response]
    IN IF Len(response.tool_calls) > 0
       THEN ToolLoopFrom(d, 1)
       ELSE TestReturned(d, NormalResult(d))

\* executor.py:250-254: the initial response arrived.
InitialResponse(c, response) ==
    LET d == [c EXCEPT !.w.response = response]
    IN IF Len(response.tool_calls) > 0 /\ config.include_tool_execution
       THEN ToolLoopFrom(d, 1)
       ELSE TestReturned(d, NormalResult(d))

\* executor.py:272-291: execute_tool_call returned tool_result.
ToolExecuted(c, is_error) ==
    _apply_rate_limit(
        [c EXCEPT !.w.tool_calls_made =
                      Append(c.w.tool_calls_made, [call |-> c.w.k]),
                  !.w.tool_results =
                      Append(c.w.tool_results,
                             [call |-> c.w.k, error |-> is_error])],
        "followup")

\* executor.py:298-304: the follow-up response arrived.
FollowupResponse(c, final_response) ==
    ToolLoopFrom([c EXCEPT !.w.response.content = final_response.content],
                 c.w.k + 1)

\* executor.py:306-308: the follow-up call raised or timed out inside the
\* tool loop's try block.
FollowupRaised(c) ==
    ToolLoopFrom(
        [c EXCEPT !.w.tool_results =
                      Append(c.w.tool_results, [call |-> c.w.k, error |-> TRUE])],
        c.w.k + 1)

\* The generation call in flight completed (returned, raised or timed out).
CallDone(c) ==
    [c EXCEPT !.w.since_done = 0,
              !.w.duration = c.since,
              !.w.gap = 0,
              !.w.done_gap = 0,
              !.w.prev_duration = 0]


\* No evaluation is going on.
NoJudging == [pc |-> "none"]

\* No benchmark run is being evaluated.
NoBatch == [pc |-> "none"]

\* No evaluations of several judges are at hand.
NoMulti == [pc |-> "none"]

\* No tool loop is followed on its own.
NoToolCall == [pc |-> "none"]

\* ------------------------------------------------------------------ Init
Init ==
    /\ models_config \in {"loaded", "empty"}
    /\ config \in Configs
    /\ test_cases \in TestLists
    /\ models_to_test \in ModelLists
    /\ Load(config, models_to_test, test_cases) <= MaxLoad
    /\ model_results = <<>>
    /\ run_status = None
    /\ run_pc = "init"
    /\ run_error = None
    /\ semaphore = 0
    /\ time_since_last = [m \in ModelIdSet |-> config.rate_limit_delay]
    /\ faults = 0
    /\ task = <<>>
    /\ progress = NoProgress
    /\ storage = [save_calls |-> 0, runs |-> <<>>]
    /\ judging = NoJudging
    /\ tool_call_info = NoToolCall
    /\ batch = NoBatch
    /\ multi = NoMulti

\* ------------------------------------------------------- run_benchmark
ConfiguredModelResults ==
    LET known == SelectSeq(models_to_test,
                           LAMBDA id : get_model_config(id) # None)
    IN [i \in 1..Len(known) |-> ModelBenchmarkResults(known[i])]

\* executor.py:96-105: one entry per model id, in the order of model_ids.
InitialModelResults ==
    [i \in 1..Len(models_to_test) |-> ModelBenchmarkResults(models_to_test[i])]

\* executor.py:75-116 up to the await of asyncio.gather.  With an empty
\* models configuration file get_model_config raises on the first model id
\* (provider_factory.py:77) and the except block (130-136) runs.
run_benchmark ==
    /\ run_pc = "init"
    /\ IF models_config = "empty"
       THEN /\ run_status' = "failed"
            /\ run_error' = "init"
            /\ run_pc' = "save_failed"
            /\ UNCHANGED <<model_results, semaphore, task>>
       ELSE /\ run_status' = "running"
            /\ model_results' = InitialModelResults
            /\ semaphore' = config.concurrent_models
            /\ task' = [i \in 1..Len(models_to_test) |-> NewTask]
            /\ run_pc' = "gather"
            /\ UNCHANGED run_error
    /\ UNCHANGED <<inputs, judging, tool_call_info, batch, multi, time_since_last, faults, progress, storage>>

AnyTaskDone == \E i \in DOMAIN task : task[i].pc = "done"

\* asyncio.gather waits for every task (executor.py:116).
AllTasksDone == \A i \in DOMAIN task : task[i].pc = "done"

gather_returns_strict ==
    /\ run_pc = "gather"
    /\ AllTasksDone
    /\ run_status' = IF \E i \in DOMAIN model_results :
                           model_results[i].status = "failed"
                     THEN "failed" ELSE "completed"
    /\ run_pc' = "save"
    /\ UNCHANGED <<inputs, judging, tool_call_info, batch, multi, model_results, run_error, semaphore,
                   time_since_last, faults, task, progress, storage>>

\* executor.py:116-126: gather returned; the run is marked completed and
\* _save_benchmark_results is entered.
gather_returns ==
    /\ run_pc = "gather"
    /\ AllTasksDone
    /\ run_status' = "completed"
    /\ run_pc' = "save"
    /\ UNCHANGED <<inputs, judging, tool_call_info, batch, multi, model_results, run_error, semaphore,
                   time_since_last, faults, task, progress, storage>>

WriteNothing(st) == [st EXCEPT !.save_calls = st.save_calls + 1]

\* executor.py:458-471: the call wrote current_run, with the status it has
\* at the call, to the BenchmarkRun file.
WriteRun(st) ==
    [st EXCEPT !.save_calls = st.save_calls + 1,
               !.runs = Append(st.runs, run_status)]

\* executor.py:466-469: open or json.dump raised; no BenchmarkRun file is
\* complete.
WriteRaised(st) == [st EXCEPT !.save_calls = st.save_calls + 1]

\* executor.py:126-138: the write of the run's file returns or raises.
_save_benchmark_results ==
    /\ run_pc = "save"
    /\ \/ /\ run_pc' = "returned"
          /\ storage' = WriteRun(storage)
          /\ UNCHANGED <<run_status, run_error, faults>>
       \/ /\ MayFail(1)
          /\ faults' = faults + 1
          /\ storage' = WriteRaised(storage)
          /\ run_status' = "failed"
          /\ run_error' = "save"
          /\ run_pc' = "save_failed"
    /\ UNCHANGED <<inputs, judging, tool_call_info, batch, multi, model_results, semaphore, time_since_last, task,
                   progress>>

\* executor.py:136-138: the write in the except block returns, or raises
\* out of run_benchmark.
save_after_failure ==
    /\ run_pc = "save_failed"
    /\ \/ /\ run_pc' = "returned"
          /\ storage' = WriteRun(storage)
          /\ UNCHANGED faults
       \/ /\ MayFail(1)
          /\ faults' = faults + 1
          /\ storage' = WriteRaised(storage)
          /\ run_pc' = "raised"
    /\ UNCHANGED <<inputs, judging, tool_call_info, batch, multi, model_results, run_status, run_error, semaphore,
                   time_since_last, task, progress>>

\* ------------------------------------------------ the model coroutines
\* The event loop has one thread: while a coroutine is inside a file write
\* or inside the callback, no other coroutine runs.
LoopFree(i) ==
    \A j \in DOMAIN task :
        j # i => task[j].pc \notin {"callback", "save", "update"}

Runnable(i) ==
    /\ run_pc = "gather"
    /\ i \in DOMAIN task
    /\ LoopFree(i)

locked_never == FALSE

\* asyncio.Semaphore.locked()
locked == semaphore = 0

\* asyncio.Semaphore wakes its waiters in the order they arrived, which is
\* the order the tasks were created in.
FirstWaiter(i) ==
    \A j \in DOMAIN task : j < i => task[j].pc # "acquire"

\* A segment of coroutine i in which the environment fails n times.
Segment(i, c, n) ==
    /\ MayFail(n)
    /\ faults' = faults + n
    /\ Commit(i, c)

\* executor.py:147-174: the permit is taken, the provider is resolved and
\* the first test is started.
acquire(i) ==
    /\ Runnable(i)
    /\ task[i].pc = "acquire"
    /\ ~locked
    /\ FirstWaiter(i)
    /\ LET c == Ctx(i)
           running == [c EXCEPT !.sem = c.sem - 1,
                                !.mr.status = "running",
                                !.mr.start_time = "set"]
       IN IF get_provider(ModelId(i)) = None
             \/ get_model_config(ModelId(i)) = None
          THEN Segment(i, FailModel(running), 0)
          ELSE Segment(i, RunTestsFrom(running, 1), 0)
    /\ UNCHANGED <<inputs, judging, tool_call_info, batch, multi, run_status, run_pc, run_error, storage>>

\* executor.py:230-232: asyncio.sleep is over.
rate_limit_wake(i) ==
    /\ Runnable(i)
    /\ task[i].pc = "rl_sleep"
    /\ task[i].wait_time = 0
    /\ Segment(i, IssueRequest(Ctx(i)), 0)
    /\ UNCHANGED <<inputs, judging, tool_call_info, batch, multi, run_status, run_pc, run_error, storage>>

Garbage(tcs) == Cardinality({k \in DOMAIN tcs : NormalizeRaises(tcs[k])})

\* executor.py:246-249: the wait_for around the initial generate_response
\* ends: with a response, with asyncio.TimeoutError, or with an exception.
generate_response(i) ==
    /\ Runnable(i)
    /\ task[i].pc = "gen"
    /\ task[i].stage = "initial"
    /\ LET c == CallDone(Ctx(i)) IN
         \/ \E tcs \in ToolCallLists :
               Segment(i, InitialResponse(c,
                   [content |-> "initial", error |-> None, tool_calls |-> tcs]),
                   Garbage(tcs))
         \/ Segment(i, TestReturned(
                           [c EXCEPT !.w.timed_out = c.w.timed_out \cup {c.w.t}],
                           TimeoutResult(c)), 1)
         \/ Segment(i, TestReturned(
                           [c EXCEPT !.w.raised = c.w.raised \cup {c.w.t}],
                           ExceptionResult(c)), 1)
    /\ UNCHANGED <<inputs, judging, tool_call_info, batch, multi, run_status, run_pc, run_error, storage>>

\* base.py:222-270: execute_tool_call returns a payload or an error record;
\* it catches its own exceptions.
execute_tool_call(i) ==
    /\ Runnable(i)
    /\ task[i].pc = "tool"
    /\ \/ Segment(i, ToolExecuted(Ctx(i), FALSE), 0)
       \/ Segment(i, ToolExecuted(Ctx(i), TRUE), 1)
    /\ UNCHANGED <<inputs, judging, tool_call_info, batch, multi, run_status, run_pc, run_error, storage>>

\* executor.py:293-308: the wait_for around the follow-up generate_response
\* ends: with a response, with an exception, or with asyncio.TimeoutError;
\* the tool loop's except clause (306) catches both, TimeoutError being an
\* Exception.
followup_response(i) ==
    /\ Runnable(i)
    /\ task[i].pc = "gen"
    /\ task[i].stage = "followup"
    /\ LET c == CallDone(Ctx(i)) IN
         \/ \E tcs \in ToolCallLists :
               Segment(i, FollowupResponse(c,
                   [content |-> "final", error |-> None, tool_calls |-> tcs]),
                   0)
         \/ Segment(i, FollowupRaised(c), 1)
         \/ Segment(i, FollowupRaised(
                           [c EXCEPT !.w.followup_timed_out =
                                         c.w.followup_timed_out \cup {c.w.t}]),
                     1)
    /\ UNCHANGED <<inputs, judging, tool_call_info, batch, multi, run_status, run_pc, run_error, storage>>

\* executor.py:189-193: the per-test progress callback returns or raises.
progress_callback(i) ==
    /\ Runnable(i)
    /\ task[i].pc = "callback"
    /\ \/ Segment(i, CallbackReturned(Ctx(i), FALSE), 0)
       \/ Segment(i, CallbackReturned(Ctx(i), TRUE), 1)
    /\ UNCHANGED <<inputs, judging, tool_call_info, batch, multi, run_status, run_pc, run_error, storage>>

\* executor.py:209-214, 216-220: _save_model_results returns or raises.
_save_model_results(i) ==
    /\ Runnable(i)
    /\ task[i].pc = "save"
    /\ \/ Segment(i, CallUpdateProgress(
                        [Ctx(i) EXCEPT !.w.saved = task[i].saved + 1]), 0)
       \/ Segment(i, FailModel(Ctx(i)), 1)
    /\ UNCHANGED <<inputs, judging, tool_call_info, batch, multi, run_status, run_pc, run_error, storage>>

\* executor.py:214, 456, 216-220: the callback called by _update_progress
\* returns or raises.
_update_progress(i) ==
    /\ Runnable(i)
    /\ task[i].pc = "update"
    /\ \/ Segment(i, ReleaseAndReturn(Ctx(i)), 0)
       \/ Segment(i, FailModel(Ctx(i)), 1)
    /\ UNCHANGED <<inputs, judging, tool_call_info, batch, multi, run_status, run_pc, run_error, storage>>

\* One clock tick passes while the run is waiting for its tasks: every
\* duration grows and every sleep in progress gets shorter.
Tick ==
    /\ run_pc = "gather"
    /\ ~AllTasksDone
    /\ time_since_last' = [m \in ModelIdSet |-> Saturate(time_since_last[m] + 1)]
    /\ task' = [i \in DOMAIN task |->
                  IF task[i].pc \in {"acquire", "gen", "done"} THEN task[i]
                  ELSE [task[i] EXCEPT
                          !.since_done = Saturate(task[i].since_done + 1),
                          !.wait_time = IF task[i].wait_time > 0
                                        THEN task[i].wait_time - 1 ELSE 0]]
    /\ UNCHANGED <<inputs, judging, tool_call_info, batch, multi, model_results, run_status, run_pc, run_error,
                   semaphore, faults, progress, storage>>

Worker(i) ==
    \/ acquire(i)
    \/ rate_limit_wake(i)
    \/ generate_response(i)
    \/ execute_tool_call(i)
    \/ followup_response(i)
    \/ progress_callback(i)
    \/ _save_model_results(i)
    \/ _update_progress(i)

Next ==
    \/ run_benchmark
    \/ gather_returns
    \/ _save_benchmark_results
    \/ save_after_failure
    \/ \E i \in 1..MaxModels : Worker(i)
    \/ Tick

Spec == Init /\ [][Next]_vars

\* ------------------------------------------------------ fair scheduling
\* The steps of worker i that the code itself brings about: the event loop
\* resumes a coroutine that can run, a sleep ends, and the wait_for around a
\* generation call ends after timeout_per_test at the latest
\* (executor.py:246-249, 293-296).  The return of execute_tool_call is not
\* among them: it is awaited without a timeout (executor.py:271).
Responsive(i) ==
    \/ acquire(i)
    \/ rate_limit_wake(i)
    \/ generate_response(i)
    \/ followup_response(i)
    \/ progress_callback(i)
    \/ _save_model_results(i)
    \/ _update_progress(i)

\* The steps of run_benchmark itself (executor.py:107-138).
RunStep ==
    \/ run_benchmark
    \/ gather_returns
    \/ _save_benchmark_results
    \/ save_after_failure

Fairness ==
    /\ WF_vars(RunStep)
    /\ WF_vars(Tick)
    /\ \A i \in 1..MaxModels : WF_vars(Responsive(i))

SpecFair == Init /\ [][Next]_vars /\ Fairness


\* ================================================================= judge
\* LLMJudge (src/benchmark/src/evaluation/judge.py) and the consensus of
\* MultiJudgeEvaluation (multi_judge.py).  A text is a sequence of
\* characters.  A judge response is written in a JSON whose tokens are one
\* character each: a member of the object is a key character followed by
\* its value, either an object "{v}" with one character v for what the
\* object holds, or the character "i" for a value that is not an object.

\* EvaluationCriteria, in the order of the enum (models.py:6-11).
EvaluationCriteria ==
    <<"task_performance", "response_quality", "language_quality",
      "tool_usage", "factual_accuracy">>

\* ScoreLevel (models.py:14-19).
ScoreLevel == {"excellent", "good", "satisfactory", "poor", "very_poor"}

\* SCORE_VALUES (models.py:22-28).
SCORE_VALUES ==
    [l \in ScoreLevel |->
        CASE l = "excellent" -> 5
          [] l = "good" -> 4
          [] l = "satisfactory" -> 3
          [] l = "poor" -> 2
          [] l = "very_poor" -> 1]

\* CriteriaScore.__init__ (models.py:31-40): score_value is taken from the
\* level unless the data carry one.
CriteriaScore(data) ==
    [criteria |-> data.criteria,
     score |-> data.score,
     reasoning |-> data.reasoning,
     score_value |-> IF "score_value" \in DOMAIN data
                     THEN data.score_value
                     ELSE SCORE_VALUES[data.score]]

\* Key characters: the five criteria, a name that is no criterion, and
\* additional_notes.
CriterionKeys == <<"T", "R", "L", "U", "F">>
KeyTokens == Range(CriterionKeys) \cup {"X", "N"}

KeyName(k) ==
    CASE k = "T" -> "task_performance"
      [] k = "R" -> "response_quality"
      [] k = "L" -> "language_quality"
      [] k = "U" -> "tool_usage"
      [] k = "F" -> "factual_accuracy"
      [] k = "X" -> "unknown_criterion"
      [] k = "N" -> "additional_notes"

\* What the object of a member holds: "1".."5" and "9" an integer score
\* and a reasoning; "g" the score "good" and a reasoning; "?" a score string
\* that names no level, and a reasoning; "m" a reasoning and no score.
IntValues == {"1", "2", "3", "4", "5", "9"}
DictValues == IntValues \cup {"g", "?", "m"}

IntOf(v) ==
    CASE v = "1" -> 1 [] v = "2" -> 2 [] v = "3" -> 3
      [] v = "4" -> 4 [] v = "5" -> 5 [] v = "9" -> 9

Whitespace == {" "}

\* The opening and the closing line of a code block; "~" is the backquote.
FenceJson == <<"~", "~", "~", "j", "s", "o", "n">>
Fence == <<"~", "~", "~">>

\* ---------------------------------------------------------- str methods
RECURSIVE lstrip(_)
lstrip(s) ==
    IF s # <<>> /\ s[1] \in Whitespace THEN lstrip(Tail(s)) ELSE s

RECURSIVE rstrip(_)
rstrip(s) ==
    IF s # <<>> /\ s[Len(s)] \in Whitespace
    THEN rstrip(SubSeq(s, 1, Len(s) - 1))
    ELSE s

strip(s) == rstrip(lstrip(s))

startswith(s, p) == Len(s) >= Len(p) /\ SubSeq(s, 1, Len(p)) = p

endswith(s, p) ==
    Len(s) >= Len(p) /\ SubSeq(s, Len(s) - Len(p) + 1, Len(s)) = p

\* str.find and str.rfind: the 0-based index of the first and of the last
\* occurrence, or -1.
find(s, ch) ==
    IF \E k \in DOMAIN s : s[k] = ch
    THEN (CHOOSE k \in DOMAIN s :
             s[k] = ch /\ \A m \in 1..(k - 1) : s[m] # ch) - 1
    ELSE -1

rfind(s, ch) ==
    IF \E k \in DOMAIN s : s[k] = ch
    THEN (CHOOSE k \in DOMAIN s :
             s[k] = ch /\ \A m \in (k + 1)..Len(s) : s[m] # ch) - 1
    ELSE -1

\* -------------------------------------------- _parse_evaluation_response
ExtractWhole(response_content) == strip(response_content)

\* judge.py:225-241: what is handed to json.loads.
ExtractJson(response_content) ==
    LET stripped == strip(response_content)
        opened == IF startswith(stripped, FenceJson)
                  THEN SubSeq(stripped, 8, Len(stripped))
                  ELSE stripped
        closed == IF endswith(opened, Fence)
                  THEN SubSeq(opened, 1, Len(opened) - 3)
                  ELSE opened
        json_start == find(closed, "{")
        from_brace == IF json_start > 0
                      THEN SubSeq(closed, json_start + 1, Len(closed))
                      ELSE closed
        json_end == rfind(from_brace, "}")
        to_brace == IF json_end > 0 /\ json_end < Len(from_brace) - 1
                    THEN SubSeq(from_brace, 1, json_end + 1)
                    ELSE from_brace
    IN strip(to_brace)

\* The members of an object, from the text between its braces.
RECURSIVE ParseMembers(_)
ParseMembers(s) ==
    IF s = <<>> THEN [ok |-> TRUE, items |-> <<>>]
    ELSE IF s[1] \in Whitespace THEN ParseMembers(Tail(s))
    ELSE IF s[1] \notin KeyTokens THEN [ok |-> FALSE, items |-> <<>>]
    ELSE IF Len(s) >= 4 /\ s[2] = "{" /\ s[3] \in DictValues /\ s[4] = "}"
    THEN LET rest == ParseMembers(SubSeq(s, 5, Len(s)))
         IN [ok |-> rest.ok,
             items |-> <<[key |-> s[1], value |-> s[3]]>> \o rest.items]
    ELSE IF Len(s) >= 2 /\ s[2] = "i"
    THEN LET rest == ParseMembers(SubSeq(s, 3, Len(s)))
         IN [ok |-> rest.ok,
             items |-> <<[key |-> s[1], value |-> "i"]>> \o rest.items]
    ELSE [ok |-> FALSE, items |-> <<>>]

\* json.loads (judge.py:242): an object, a list, or JSONDecodeError.
json_loads(s) ==
    IF s = <<"[", "]">>
    THEN [ok |-> TRUE, kind |-> "list", items |-> <<>>]
    ELSE IF Len(s) >= 2 /\ s[1] = "{" /\ s[Len(s)] = "}"
    THEN LET members == ParseMembers(SubSeq(s, 2, Len(s) - 1))
         IN [ok |-> members.ok, kind |-> "dict", items |-> members.items]
    ELSE [ok |-> FALSE, kind |-> "none", items |-> <<>>]

\* judge.py:254: score_mapping.
score_mapping(n) ==
    CASE n = 5 -> "excellent"
      [] n = 4 -> "good"
      [] n = 3 -> "satisfactory"
      [] n = 2 -> "poor"
      [] n = 1 -> "very_poor"

\* judge.py:249-272: does handling the member raise out of the for loop?
\* EvaluationCriteria(criteria_name) raises ValueError for an unknown name,
\* at 250 and again inside the handler at 269; criteria_data["score"] raises
\* TypeError, which the handler does not catch, when criteria_data is no
\* object.
MemberRaises(item) ==
    \/ item.key \notin Range(CriterionKeys)
    \/ item.value = "i"

ParsedScoreRaw(item) ==
    CriteriaScore([criteria |-> KeyName(item.key),
                   score |-> IF IntOf(item.value) \in 1..5
                             THEN score_mapping(IntOf(item.value))
                             ELSE "satisfactory",
                   reasoning |-> "given",
                   score_value |-> IntOf(item.value)])

\* judge.py:252-265: an integer score.
ParsedScore(item) ==
    CriteriaScore([criteria |-> KeyName(item.key),
                   score |-> IF IntOf(item.value) \in 1..5
                             THEN score_mapping(IntOf(item.value))
                             ELSE "satisfactory",
                   reasoning |-> "given"])

\* judge.py:249-272: the CriteriaScore of a member that does not raise out
\* of the loop.
MemberScore(item) ==
    IF item.value \in IntValues THEN ParsedScore(item)
    ELSE IF item.value = "g"
    THEN CriteriaScore([criteria |-> KeyName(item.key),
                        score |-> "good",
                        reasoning |-> "given"])
    ELSE CriteriaScore([criteria |-> KeyName(item.key),
                        score |-> "satisfactory",
                        reasoning |-> "Failed to parse score"])

\* judge.py:244-272: the for loop over evaluation_data.items().
RECURSIVE ParseScores(_)
ParseScores(items) ==
    IF items = <<>> THEN [raised |-> FALSE, scores |-> <<>>]
    ELSE IF Head(items).key = "N" THEN ParseScores(Tail(items))
    ELSE IF MemberRaises(Head(items))
    THEN [raised |-> TRUE, scores |-> <<>>]
    ELSE LET rest == ParseScores(Tail(items))
         IN [raised |-> rest.raised,
             scores |-> <<MemberScore(Head(items))>> \o rest.scores]

\* Numbers that Python holds as floats are kept as fractions.
Fraction(num, den) == [num |-> num, den |-> den]

SameNumber(a, b) == a.num * b.den = b.num * a.den

\* criteria_weights (models.py:68-77), in hundredths: the default, and a
\* mapping that names one criterion only.
DefaultWeights ==
    [c \in Range(EvaluationCriteria) |->
        CASE c = "task_performance" -> 30
          [] c = "response_quality" -> 25
          [] c = "language_quality" -> 15
          [] c = "tool_usage" -> 15
          [] c = "factual_accuracy" -> 15]

WeightConfigs == {DefaultWeights, [c \in {"task_performance"} |-> 50]}

\* judge.py:303: criteria_weights.get(score.criteria, 0.2).
Weight(weights, criteria) ==
    IF criteria \in DOMAIN weights THEN weights[criteria] ELSE 20

RECURSIVE TotalScore(_, _)
TotalScore(weights, scores) ==
    IF scores = <<>> THEN 0
    ELSE Head(scores).score_value * Weight(weights, Head(scores).criteria)
            + TotalScore(weights, Tail(scores))

RECURSIVE TotalWeight(_, _)
TotalWeight(weights, scores) ==
    IF scores = <<>> THEN 0
    ELSE Weight(weights, Head(scores).criteria)
            + TotalWeight(weights, Tail(scores))

MeanScore(weights, scores) ==
    IF scores = <<>> THEN Fraction(3, 1)
    ELSE Fraction(TotalScore([c \in {} |-> 0], scores),
                  TotalWeight([c \in {} |-> 0], scores))

\* judge.py:297-307
_calculate_weighted_score(weights, scores) ==
    IF TotalWeight(weights, scores) > 0
    THEN Fraction(TotalScore(weights, scores), TotalWeight(weights, scores))
    ELSE Fraction(3, 1)

\* EvaluationResult (models.py:43-60), the fields an evaluation decides.
EvaluationResult(scores, overall_score, additional_notes, judge_model) ==
    [scores |-> scores,
     overall_score |-> overall_score,
     additional_notes |-> additional_notes,
     judge_model |-> judge_model]

FallbackRaises(judge_model) ==
    EvaluationResult(<<>>, Fraction(0, 1), "raised", judge_model)

\* judge.py:309-337
_create_fallback_evaluation(judge_model) ==
    EvaluationResult(
        [n \in DOMAIN EvaluationCriteria |->
            CriteriaScore([criteria |-> EvaluationCriteria[n],
                           score |-> "satisfactory",
                           reasoning |-> "Evaluation failed"])],
        Fraction(3, 1),
        "Fallback evaluation due to error",
        judge_model)

\* judge.py:274-290: additional_notes is Optional[str] (models.py:60); the
\* EvaluationResult is not built of notes that are an object.
NotesRaise(items) ==
    \E n \in DOMAIN items : items[n].key = "N" /\ items[n].value # "i"

\* judge.py:218-295, with the text json.loads is given.
ParseExtracted(text, weights, judge_model) ==
    LET evaluation_data == json_loads(text)
        parsed == ParseScores(evaluation_data.items)
    IN IF \/ ~evaluation_data.ok
          \/ evaluation_data.kind # "dict"
          \/ parsed.raised
          \/ NotesRaise(evaluation_data.items)
       THEN _create_fallback_evaluation(judge_model)
       ELSE EvaluationResult(
                parsed.scores,
                _calculate_weighted_score(weights, parsed.scores),
                IF \E n \in DOMAIN evaluation_data.items :
                       evaluation_data.items[n].key = "N"
                THEN "given" ELSE None,
                judge_model)

\* judge.py:218-295
_parse_evaluation_response(response_content, weights, judge_model) ==
    ParseExtracted(ExtractJson(response_content), weights, judge_model)

\* --------------------------------------------- _create_consensus_for_test
\* The round of Python, of sum / n: to the nearest integer, a half to the even one.
round(sum, n) ==
    LET q == sum \div n
        r == sum % n
    IN IF 2 * r < n THEN q
       ELSE IF 2 * r > n THEN q + 1
       ELSE IF q % 2 = 0 THEN q ELSE q + 1

\* multi_judge.py:136-141: the score_value of the first score of each
\* evaluation that is about the criterion.
RECURSIVE criteria_scores(_, _)
criteria_scores(evaluations, criteria) ==
    IF evaluations = <<>> THEN <<>>
    ELSE LET scores == Head(evaluations).scores
             found == {n \in DOMAIN scores : scores[n].criteria = criteria}
         IN (IF found = {} THEN <<>>
             ELSE <<scores[CHOOSE n \in found :
                              \A m \in found : n <= m].score_value>>)
            \o criteria_scores(Tail(evaluations), criteria)

RECURSIVE Sum(_)
Sum(s) == IF s = <<>> THEN 0 ELSE Head(s) + Sum(Tail(s))

Max(a, b) == IF a > b THEN a ELSE b

\* multi_judge.py:147: the inverse of SCORE_VALUES.
score_level_map(v) == CHOOSE l \in ScoreLevel : SCORE_VALUES[l] = v

\* The consensus of a criterion with the mean cut off instead of rounded.
ConsensusScoreTruncated(criteria, values) ==
    CriteriaScore([criteria |-> criteria,
                   score |-> score_level_map(
                                Max(1, Min(5, Sum(values) \div Len(values)))),
                   reasoning |-> "Consensus"])

\* multi_judge.py:143-156
ConsensusScore(criteria, values) ==
    CriteriaScore([criteria |-> criteria,
                   score |-> score_level_map(
                                Max(1, Min(5, round(Sum(values), Len(values))))),
                   reasoning |-> "Consensus"])

\* multi_judge.py:132-156: the loop over EvaluationCriteria from the n-th.
RECURSIVE consensus_scores(_, _)
consensus_scores(evaluations, n) ==
    IF n > Len(EvaluationCriteria) THEN <<>>
    ELSE LET values == criteria_scores(evaluations, EvaluationCriteria[n])
         IN (IF values = <<>> THEN <<>>
             ELSE <<ConsensusScore(EvaluationCriteria[n], values)>>)
            \o consensus_scores(evaluations, n + 1)

\* multi_judge.py:158-159: the mean of the overall scores.
RECURSIVE GCD(_, _)
GCD(a, b) == IF b = 0 THEN a ELSE GCD(b, a % b)

\* The same number in lowest terms.
Reduced(f) ==
    LET g == GCD(f.num, f.den)
    IN Fraction(f.num \div g, f.den \div g)

RECURSIVE SumFractions(_)
SumFractions(s) ==
    IF s = <<>> THEN Fraction(0, 1)
    ELSE LET rest == SumFractions(Tail(s))
         IN Reduced(Fraction(Head(s).num * rest.den + rest.num * Head(s).den,
                             Head(s).den * rest.den))

consensus_overall(evaluations) ==
    LET total == SumFractions([n \in DOMAIN evaluations |->
                                  evaluations[n].overall_score])
    IN Fraction(total.num, total.den * Len(evaluations))

\* multi_judge.py:121-182
_create_consensus_for_test(evaluations) ==
    EvaluationResult(
        consensus_scores(evaluations, 1),
        consensus_overall(evaluations),
        IF \E n \in DOMAIN evaluations : evaluations[n].additional_notes # None
        THEN "combined" ELSE None,
        "consensus")

\* ------------------------------------------------------ judge responses
\* Objects a judge may answer with: up to n members with different keys, in
\* the order of KeyOrder.  The member of a name that is no criterion holds
\* a well-formed score; additional_notes holds a string ("i") or an object.
KeyOrder == CriterionKeys \o <<"X", "N">>

ValuesOf(k) ==
    IF k = "X" THEN {"3"}
    ELSE IF k = "N" THEN {"i", "3"}
    ELSE DictValues \cup {"i"}

MemberLists(n) ==
    UNION {
        {m \in [1..len -> [key : KeyTokens, value : DictValues \cup {"i"}]] :
            /\ \A a \in 1..len : m[a].value \in ValuesOf(m[a].key)
            /\ \A a, b \in 1..len :
                  a < b => \E x, y \in DOMAIN KeyOrder :
                              /\ x < y
                              /\ KeyOrder[x] = m[a].key
                              /\ KeyOrder[y] = m[b].key}
        : len \in 0..n}

MemberText(member) ==
    IF member.value = "i" THEN <<member.key, "i">>
    ELSE <<member.key, "{", member.value, "}">>

RECURSIVE MembersText(_)
MembersText(members) ==
    IF members = <<>> THEN <<>>
    ELSE MemberText(Head(members)) \o MembersText(Tail(members))

ObjectText(members) == <<"{">> \o MembersText(members) \o <<"}">>

\* Text before the object: none, blanks, prose, the opening line of a code
\* block, prose and a code block.
Leads ==
    {<<>>,
     <<" ">>,
     <<"x", " ">>,
     <<"x">>,
     FenceJson \o <<" ">>,
     FenceJson,
     Fence \o <<" ">>,
     <<"x", " ">> \o FenceJson \o <<" ">>}

\* Text after the object: none, blanks, prose, the closing line of a code
\* block, a code block and prose.
Trails ==
    {<<>>,
     <<" ">>,
     <<" ", "x">>,
     <<"x">>,
     <<" ">> \o Fence,
     Fence,
     <<" ">> \o Fence \o <<" ">>,
     <<" ">> \o Fence \o <<" ", "x">>}

\* Responses that hold no object.
RawResponses == {<<>>, <<"x">>, <<"{">>, <<"}", "{">>, <<"[", "]">>}

\* The members of a response, and one more when there is text around the
\* object.
Size(lead, members, trail) ==
    Len(members) + (IF lead = <<>> /\ trail = <<>> THEN 0 ELSE 1)

\* ------------------------------------------------------- the evaluation
executor ==
    <<models_config, config, test_cases, models_to_test, model_results,
      run_status, run_pc, run_error, semaphore, time_since_last, faults,
      task, progress, storage>>

\* judging while no judge has been asked yet.
NewJudging(judge_models, criteria_weights) ==
    [pc |-> "idle",
     judge_models |-> judge_models,     \* how many judges evaluate
     criteria_weights |-> criteria_weights,
     used |-> judge_models - 1,         \* of the MaxEntries of the inputs
     outcome |-> None,                  \* how the last judge call ended
     response |-> [lead |-> <<>>, members |-> <<>>, trail |-> <<>>],
     content |-> <<>>,                  \* the text of the last response
     evaluations |-> <<>>,              \* one EvaluationResult per judge
     consensus |-> <<>>]                \* the consensus, once it is built

InitJudge ==
    /\ models_config = "loaded"
    /\ config = [concurrent_models |-> 1, rate_limit_delay |-> 1,
                 include_tool_execution |-> FALSE,
                 save_intermediate_results |-> FALSE,
                 progress_callback |-> FALSE]
    /\ test_cases = <<TestIdPool[1]>>
    /\ models_to_test = <<ConfiguredIds[1]>>
    /\ model_results = <<>>
    /\ run_status = None
    /\ run_pc = "init"
    /\ run_error = None
    /\ semaphore = 0
    /\ time_since_last = [m \in ModelIdSet |-> config.rate_limit_delay]
    /\ faults = 0
    /\ task = <<>>
    /\ progress = NoProgress
    /\ storage = [save_calls |-> 0, runs |-> <<>>]
    /\ \E judge_models \in 1..MaxJudges, criteria_weights \in WeightConfigs :
          /\ judge_models - 1 <= MaxEntries
          /\ judging = NewJudging(judge_models, criteria_weights)
    /\ tool_call_info = NoToolCall
    /\ batch = NoBatch
    /\ multi = NoMulti

JudgeName(n) == n

\* The evaluation the judge call ended with is returned to the caller.
Returned(outcome, response, content, evaluation, size) ==
    [judging EXCEPT !.pc = "returned",
                    !.outcome = outcome,
                    !.response = response,
                    !.content = content,
                    !.used = judging.used + size,
                    !.evaluations = Append(judging.evaluations, evaluation)]

\* judge.py:35-53: the next judge's evaluate_test_result runs up to the
\* await of generate_response.
evaluate_test_result ==
    /\ judging.pc \in {"idle", "returned"}
    /\ Len(judging.evaluations) < judging.judge_models
    /\ judging' = [judging EXCEPT
                      !.pc = "call",
                      !.outcome = None,
                      !.response = [lead |-> <<>>, members |-> <<>>,
                                    trail |-> <<>>],
                      !.content = <<>>]
    /\ UNCHANGED <<executor, tool_call_info, batch, multi>>

\* judge.py:50-56: the judge call returns a response that holds an object.
judge_responds ==
    /\ judging.pc = "call"
    /\ \E lead \in Leads, trail \in Trails,
          members \in MemberLists(MaxEntries - judging.used) :
          /\ judging.used + Size(lead, members, trail) <= MaxEntries
          /\ LET content == lead \o ObjectText(members) \o trail
             IN judging' =
                  Returned("response",
                           [lead |-> lead, members |-> members,
                            trail |-> trail],
                           content,
                           _parse_evaluation_response(
                               content, judging.criteria_weights,
                               JudgeName(Len(judging.evaluations) + 1)),
                           Size(lead, members, trail))
    /\ UNCHANGED <<executor, tool_call_info, batch, multi>>

\* judge.py:50-56: the judge call returns a response that holds no object.
judge_responds_raw ==
    /\ judging.pc = "call"
    /\ \E content \in RawResponses :
          judging' =
              Returned("raw",
                       [lead |-> <<>>, members |-> <<>>, trail |-> <<>>],
                       content,
                       _parse_evaluation_response(
                           content, judging.criteria_weights,
                           JudgeName(Len(judging.evaluations) + 1)),
                       0)
    /\ UNCHANGED <<executor, tool_call_info, batch, multi>>

\* judge.py:50-60: the judge call raises, or wait_for cuts it off.
judge_fails ==
    /\ judging.pc = "call"
    /\ \E outcome \in {"raised", "timeout"} :
          judging' =
              Returned(outcome,
                       [lead |-> <<>>, members |-> <<>>, trail |-> <<>>],
                       <<>>,
                       _create_fallback_evaluation(
                           JudgeName(Len(judging.evaluations) + 1)),
                       0)
    /\ UNCHANGED <<executor, tool_call_info, batch, multi>>

\* multi_judge.py:114-116: every judge has evaluated the test; the consensus
\* of their evaluations is built.
create_consensus_evaluation ==
    /\ judging.pc = "returned"
    /\ Len(judging.evaluations) = judging.judge_models
    /\ judging' = [judging EXCEPT
                      !.pc = "consensus",
                      !.consensus =
                          <<_create_consensus_for_test(judging.evaluations)>>]
    /\ UNCHANGED <<executor, tool_call_info, batch, multi>>

NextJudge ==
    \/ evaluate_test_result
    \/ judge_responds
    \/ judge_responds_raw
    \/ judge_fails
    \/ create_consensus_evaluation

SpecJudge == InitJudge /\ [][NextJudge]_vars

\* ====================================================== tool call arguments
\* safe_json_loads (executor.py:23-46) and the handling of one tool call of a
\* response (executor.py:255-308).  The arguments string is a sequence of
\* characters of a JSON whose tokens are one character each: "1" is null,
\* "a" a member with null as its value, "k" the key of a member whose value
\* is the value that follows it, "x" a character no JSON value starts with,
\* " " is whitespace.
ArgChars == {" ", "{", "}", "a", "k", "1", "x"}

ArgStrings == UNION {[1..n -> ArgChars] : n \in 0..MaxArgLen}

\* Arguments that arrive as a value and not as a string.
ArgValues == {<<"{", "}">>, <<"{", "a", "}">>, <<"1">>}

\* The index of the first character at or after idx that is no whitespace.
RECURSIVE skip_ws(_, _)
skip_ws(s, idx) ==
    IF idx <= Len(s) /\ s[idx] \in Whitespace THEN skip_ws(s, idx + 1) ELSE idx

Failed == [ok |-> FALSE, end |-> 0, value |-> <<>>, cut |-> FALSE]

Value(end, value) == [ok |-> TRUE, end |-> end, value |-> value, cut |-> FALSE]

At(s, idx) == IF idx \in DOMAIN s THEN s[idx] ELSE "end"

\* JSONDecoder.raw_decode(s, idx): the value that starts at idx, as its
\* tokens without whitespace, and the index after it.  The text of "a" and
\* of "k" starts with the string that is the key: where a value is expected
\* this string is the value ("s"), and it is cut out of the token, whose
\* remaining text follows it.
RECURSIVE scan_once(_, _)
scan_once(s, idx) ==
    IF At(s, idx) = "1" THEN Value(idx + 1, <<"1">>)
    ELSE IF At(s, idx) \in {"a", "k"}
    THEN [ok |-> TRUE, end |-> idx + 1, value |-> <<"s">>, cut |-> TRUE]
    ELSE IF At(s, idx) # "{" THEN Failed
    ELSE LET j == skip_ws(s, idx + 1)
         IN IF At(s, j) = "}" THEN Value(j + 1, <<"{", "}">>)
            ELSE IF At(s, j) = "a"
            THEN IF At(s, skip_ws(s, j + 1)) = "}"
                 THEN Value(skip_ws(s, j + 1) + 1, <<"{", "a", "}">>)
                 ELSE Failed
            ELSE IF At(s, j) = "k"
            THEN LET inner == scan_once(s, skip_ws(s, j + 1))
                 IN IF inner.ok /\ ~inner.cut
                       /\ At(s, skip_ws(s, inner.end)) = "}"
                    THEN Value(skip_ws(s, inner.end) + 1,
                               <<"{", "k">> \o inner.value \o <<"}">>)
                    ELSE Failed
            ELSE Failed

\* json.loads: the value of the whole string, or JSONDecodeError, with
\* "Extra data" when a value is followed by something that is no whitespace.
loads(s) ==
    LET obj == scan_once(s, skip_ws(s, 1))
    IN IF ~obj.ok THEN [ok |-> FALSE, extra_data |-> FALSE, value |-> <<>>]
       ELSE IF obj.cut \/ skip_ws(s, obj.end) <= Len(s)
       THEN [ok |-> FALSE, extra_data |-> TRUE, value |-> <<>>]
       ELSE [ok |-> TRUE, extra_data |-> FALSE, value |-> obj.value]

\* decoder.raw_decode(json_str) (executor.py:33): the value at the very
\* start of the string; whitespace before it is not skipped.
raw_decode(s) == scan_once(s, 1)

\* The lookahead (?=\s*[^\}\s]|$) after the character at e.
Lookahead(s, e) ==
    \/ e = Len(s)
    \/ At(s, skip_ws(s, e + 1)) \notin {"}", "end"}

\* re.search(r'\{.*?\}(?=\s*[^\}\s]|$)', json_str) (executor.py:37-38):
\* from the leftmost "{" that has one, the shortest text up to a "}" that
\* the lookahead accepts; an empty sequence when there is no match.
re_search(s) ==
    LET ends(b) == {e \in DOMAIN s : e > b /\ s[e] = "}" /\ Lookahead(s, e)}
        starts == {b \in DOMAIN s : s[b] = "{" /\ ends(b) # {}}
    IN IF starts = {} THEN <<>>
       ELSE LET b == CHOOSE b \in starts : \A c \in starts : b <= c
                e == CHOOSE e \in ends(b) : \A f \in ends(b) : e <= f
            IN SubSeq(s, b, e)

Raised == [raised |-> TRUE, value |-> <<>>]

Returns(value) == [raised |-> FALSE, value |-> value]

\* executor.py:23-46, for a string.
safe_json_loads(json_str) ==
    IF loads(json_str).ok THEN Returns(loads(json_str).value)
    ELSE IF ~loads(json_str).extra_data THEN Raised
    ELSE IF raw_decode(json_str).ok THEN Returns(raw_decode(json_str).value)
    ELSE IF re_search(json_str) # <<>> /\ loads(re_search(json_str)).ok
    THEN Returns(loads(re_search(json_str)).value)
    ELSE Raised

\* executor.py:259-269: ToolCall(arguments=...) with arguments that arrive as
\* a string or as a value; arguments is Dict[str, Any] (base.py:21), any
\* other value raises.
ToolCall(info) ==
    LET arguments == IF info.is_str THEN safe_json_loads(info.arguments)
                     ELSE Returns(info.arguments)
    IN IF arguments.raised \/ arguments.value[1] # "{" THEN Raised
       ELSE arguments

\* The tool loop at its first tool call; more further tool calls follow,
\* with an object as their arguments.
NewToolLoop(info, more) ==
    [pc |-> "loop",
     info |-> info,              \* the tool call the for loop is at
     first |-> info,             \* the first tool call of the response
     k |-> 1,                    \* index of the tool call the loop is at
     more |-> more,              \* tool calls after the one the loop is at
     tool_call |-> <<>>,         \* arguments of the ToolCall in execution
     tool_calls_made |-> <<>>,
     tool_results |-> <<>>,
     executions |-> 0,           \* calls of execute_tool_call
     followups |-> 0]            \* follow-up generation calls

InitArgs ==
    /\ models_config = "loaded"
    /\ config = [concurrent_models |-> 1, rate_limit_delay |-> 1,
                 include_tool_execution |-> TRUE,
                 save_intermediate_results |-> FALSE,
                 progress_callback |-> FALSE]
    /\ test_cases = <<TestIdPool[1]>>
    /\ models_to_test = <<ConfiguredIds[1]>>
    /\ model_results = <<>>
    /\ run_status = None
    /\ run_pc = "init"
    /\ run_error = None
    /\ semaphore = 0
    /\ time_since_last = [m \in ModelIdSet |-> config.rate_limit_delay]
    /\ faults = 0
    /\ task = <<>>
    /\ progress = NoProgress
    /\ storage = [save_calls |-> 0, runs |-> <<>>]
    /\ judging = NoJudging
    /\ batch = NoBatch
    /\ multi = NoMulti
    /\ \E info \in [is_str : {TRUE}, arguments : ArgStrings]
                      \cup [is_str : {FALSE}, arguments : ArgValues],
          more \in 0..MaxToolCalls :
          tool_call_info = NewToolLoop(info, more)

\* executor.py:306-308, and the for loop going to the next tool call or
\* ending.
NextToolCall(l, tool_results) ==
    IF l.more > 0
    THEN [l EXCEPT !.pc = "loop",
                   !.info = [is_str |-> FALSE, arguments |-> <<"{", "a", "}">>],
                   !.k = l.k + 1,
                   !.more = l.more - 1,
                   !.tool_call = <<>>,
                   !.tool_results = tool_results]
    ELSE [l EXCEPT !.pc = "done",
                   !.k = l.k + 1,
                   !.tool_call = <<>>,
                   !.tool_results = tool_results]

\* executor.py:256-271: the ToolCall is built and execute_tool_call is
\* awaited, or building it raises into the except clause (306-308).
build_tool_call ==
    /\ tool_call_info.pc = "loop"
    /\ LET l == tool_call_info
           built == ToolCall(l.info)
       IN tool_call_info' =
            IF built.raised
            THEN NextToolCall(l, Append(l.tool_results, "error"))
            ELSE [l EXCEPT !.pc = "tool",
                           !.tool_call = built.value,
                           !.executions = l.executions + 1]
    /\ UNCHANGED <<executor, judging, batch, multi>>

\* executor.py:271-296: execute_tool_call returned a payload or an error
\* record; both lists are extended and the follow-up generation is awaited.
tool_executed ==
    /\ tool_call_info.pc = "tool"
    /\ \E tool_result \in {"payload", "error"} :
          tool_call_info' =
              [tool_call_info EXCEPT
                  !.pc = "followup",
                  !.tool_calls_made = Append(@, tool_call_info.tool_call),
                  !.tool_results = Append(@, tool_result),
                  !.followups = @ + 1]
    /\ UNCHANGED <<executor, judging, batch, multi>>

\* executor.py:293-308: the follow-up generation returned, or it raised or
\* timed out into the except clause.
followup_done ==
    /\ tool_call_info.pc = "followup"
    /\ \/ tool_call_info' =
             NextToolCall(tool_call_info, tool_call_info.tool_results)
       \/ tool_call_info' =
             NextToolCall(tool_call_info,
                          Append(tool_call_info.tool_results, "error"))
    /\ UNCHANGED <<executor, judging, batch, multi>>

NextArgs ==
    \/ build_tool_call
    \/ tool_executed
    \/ followup_done

SpecArgs == InitArgs /\ [][NextArgs]_vars

\* ===================================================== evaluate_benchmark_run
MaxResults == 4      \* most TestResults in the run a judge evaluates
JudgeDelay == 2      \* clock ticks of the asyncio.sleep(1) between judge calls

\* No benchmark is executed while its results are evaluated.
NoRun ==
    /\ models_config = "loaded"
    /\ config = [concurrent_models |-> 1, rate_limit_delay |-> 1,
                 include_tool_execution |-> FALSE,
                 save_intermediate_results |-> FALSE,
                 progress_callback |-> FALSE]
    /\ test_cases = <<TestIdPool[1]>>
    /\ models_to_test = <<ConfiguredIds[1]>>
    /\ model_results = <<>>
    /\ run_status = None
    /\ run_pc = "init"
    /\ run_error = None
    /\ semaphore = 0
    /\ time_since_last = [m \in ModelIdSet |-> config.rate_limit_delay]
    /\ faults = 0
    /\ task = <<>>
    /\ progress = NoProgress
    /\ storage = [save_calls |-> 0, runs |-> <<>>]

\* benchmark_run.test_cases of the evaluated run, and the test_case_id a
\* TestResult may hold: one of them, or an id the run has no test case for.
RunTestCases == {TestIdPool[k] : k \in 1..MaxTests}
ResultTestIds == RunTestCases \cup {"tc_missing"}

\* How many test_results each model_result holds.
Shapes ==
    {shape \in UNION {[1..n -> 0..MaxTests] : n \in 1..MaxModels} :
        Sum(shape) <= MaxResults}

\* benchmark_run.model_results with the test_case_ids of `flat`, dealt out
\* in order, shape[m] of them to the m-th model.
RunOf(shape, flat) ==
    [m \in DOMAIN shape |->
        [model_id |-> ConfiguredIds[m],
         test_results |->
            SubSeq(flat,
                   Sum(SubSeq(shape, 1, m - 1)) + 1,
                   Sum(SubSeq(shape, 1, m)))]]

NewBatch(run) ==
    [pc |-> "start",
     model_results |-> run,
     m |-> 0,                  \* index of model_result in the outer loop
     i |-> 0,                  \* index of test_result in the inner loop
     context |-> None,         \* expected_behavior given to the call in flight
     in_flight |-> 0,          \* judge calls begun and not ended
     calls |-> 0,              \* judge calls that ended
     since_end |-> 0,          \* time since the last judge call ended
     gap |-> 0,                \* call in flight: since_end when it began
     wait_time |-> 0,          \* what is left of the asyncio.sleep
     model_evaluations |-> <<>>,
     all_evaluations |-> <<>>]

InitBatch ==
    /\ NoRun
    /\ judging = NoJudging
    /\ tool_call_info = NoToolCall
    /\ multi = NoMulti
    /\ \E shape \in Shapes :
          \E flat \in [1..Sum(shape) -> ResultTestIds] :
              batch = NewBatch(RunOf(shape, flat))

\* judge.py:344 and 354: test_case_lookup.get(test_result.test_case_id)
\* (a list of the test case found, empty for None)
test_case_lookup(test_case_id) ==
    IF test_case_id \in RunTestCases
    THEN <<[id |-> test_case_id, expected_behavior |-> test_case_id]>>
    ELSE <<>>

\* judge.py:355-359: the context of a TestResult; the expected behaviour of
\* a test case is named by its id.
Context(test_case_id) ==
    LET test_case == test_case_lookup(test_case_id)
    IN IF test_case # <<>> THEN test_case[1].expected_behavior ELSE ""

\* judge.py:362: evaluate_test_result is called for the i-th test_result of
\* the m-th model_result and suspends in the judge call.
CallJudge(b, m, i) ==
    [b EXCEPT !.pc = "call",
              !.m = m,
              !.i = i,
              !.context = Context(b.model_results[m].test_results[i]),
              !.in_flight = b.in_flight + 1,
              !.gap = IF b.calls = 0 THEN JudgeDelay ELSE b.since_end]

\* judge.py:348-353: the outer loop from the m-th model_result, up to the
\* first judge call or to the end.
RECURSIVE EvaluateModelsFrom(_, _)
EvaluateModelsFrom(b, m) ==
    IF m > Len(b.model_results)
    THEN [b EXCEPT !.pc = "done", !.m = m, !.i = 0]
    ELSE IF b.model_results[m].test_results = <<>>
    THEN EvaluateModelsFrom(b, m + 1)
    ELSE CallJudge([b EXCEPT !.model_evaluations = <<>>], m, 1)

\* judge.py:64-66 with 274-295 and 309-337: the EvaluationResult that
\* evaluate_test_result returns for a TestResult and its context.
BatchEvaluation(model_result, test_case_id, expected_behavior) ==
    [model_id |-> model_result.model_id,
     test_case_id |-> test_case_id,
     expected_behavior |-> expected_behavior]

\* The evaluations of the model are copied, those of a TestResult without a
\* test case left out.
CopyKnownEvaluations(b) ==
    [b EXCEPT !.all_evaluations =
                  @ \o SelectSeq(b.model_evaluations,
                                 LAMBDA e : e.expected_behavior # ""),
              !.model_evaluations = <<>>]

\* judge.py:373-377: the EvaluationResults of the model are appended to
\* all_evaluations (model_evaluations holds nothing else: evaluate_test_result
\* does not raise).
CopyEvaluations(b) ==
    [b EXCEPT !.all_evaluations = @ \o b.model_evaluations,
              !.model_evaluations = <<>>]

\* judge.py:339-346
evaluate_benchmark_run ==
    /\ batch.pc = "start"
    /\ batch' = EvaluateModelsFrom(batch, 1)
    /\ UNCHANGED <<executor, judging, tool_call_info, multi>>

\* judge.py:361-376: evaluate_test_result returned its EvaluationResult (it
\* catches what the judge call raises, judge.py:58-60); the loop sleeps
\* before the next TestResult of the model, or copies the evaluations of the
\* model and goes on with the next model.
evaluation_returns ==
    /\ batch.pc = "call"
    /\ LET model_result == batch.model_results[batch.m]
           evaluation ==
               BatchEvaluation(model_result,
                               model_result.test_results[batch.i],
                               batch.context)
           b == [batch EXCEPT
                    !.context = None,
                    !.in_flight = batch.in_flight - 1,
                    !.calls = batch.calls + 1,
                    !.since_end = 0,
                    !.gap = 0,
                    !.model_evaluations = Append(@, evaluation)]
       IN batch' =
            IF batch.i < Len(model_result.test_results)
            THEN [b EXCEPT !.pc = "sleep", !.wait_time = JudgeDelay]
            ELSE EvaluateModelsFrom(CopyEvaluations(b), batch.m + 1)
    /\ UNCHANGED <<executor, judging, tool_call_info, multi>>

\* judge.py:370-371: asyncio.sleep(1) is over.
sleep_returns ==
    /\ batch.pc = "sleep"
    /\ batch.wait_time = 0
    /\ batch' = CallJudge(batch, batch.m, batch.i + 1)
    /\ UNCHANGED <<executor, judging, tool_call_info, multi>>

\* Time passes while the coroutine sleeps.
TickBatch ==
    /\ batch.pc = "sleep"
    /\ batch.wait_time > 0
    /\ batch' = [batch EXCEPT
                    !.wait_time = @ - 1,
                    !.since_end = Min(JudgeDelay, @ + 1)]
    /\ UNCHANGED <<executor, judging, tool_call_info, multi>>

NextBatch ==
    \/ evaluate_benchmark_run
    \/ evaluation_returns
    \/ sleep_returns
    \/ TickBatch

SpecBatch == InitBatch /\ [][NextBatch]_vars

\* ============================================================ multi judge
MaxPanel == 3        \* most judges whose evaluations are combined
MaxEvaluations == 4  \* most EvaluationResults the judges hold together

\* The score of every criterion in one EvaluationResult, in the order of
\* EvaluationCriteria, 0 for a criterion the judge response did not hold:
\* one value throughout, one criterion only, the values of the worked example,
\* and no criterion at all.
Profiles ==
    {[n \in 1..5 |-> v] : v \in 1..5}
        \cup {<<5, 0, 0, 0, 0>>, <<5, 3, 4, 4, 2>>, <<0, 0, 0, 0, 0>>}

\* judge.py:243-272: the scores parsed from a response with these values.
ProfileScores(profile) ==
    LET given == SelectSeq([n \in 1..5 |-> n], LAMBDA n : profile[n] > 0)
    IN [k \in DOMAIN given |->
           CriteriaScore([criteria |-> EvaluationCriteria[given[k]],
                          score |-> score_mapping(profile[given[k]]),
                          reasoning |-> "given"])]

\* judge.py:274-290: the EvaluationResult a judge returns for a TestResult.
JudgeEvaluation(model_id, test_case_id, judge_model, profile) ==
    [model_id |-> model_id,
     test_case_id |-> test_case_id,
     scores |-> ProfileScores(profile),
     overall_score |->
        _calculate_weighted_score(DefaultWeights, ProfileScores(profile)),
     additional_notes |-> None,
     judge_model |-> judge_model]

\* multi_judge.py:66-97 with judge.py:348-377: the results of judge number
\* j for a run of `models` models with `tests` TestResults each, in the order
\* of the run; profiles holds the values of all judges, judge by judge.
JudgeResults(j, models, tests, profiles) ==
    [n \in 1..(models * tests) |->
        JudgeEvaluation(ConfiguredIds[((n - 1) \div tests) + 1],
                        TestIdPool[((n - 1) % tests) + 1],
                        JudgeName(j),
                        profiles[(j - 1) * models * tests + n])]

\* judge_evaluations as main builds it (multi_judge.py:315): per judge, in
\* the order of judge_models, the results of its BatchEvaluationResult; a
\* judge that failed completely has none (multi_judge.py:86-92).
JudgeEvaluations(judges, failed, models, tests, profiles) ==
    [j \in 1..(judges + failed) |->
        [judge_model |-> JudgeName(j),
         evaluations |-> IF j <= judges
                         THEN JudgeResults(j, models, tests, profiles)
                         ELSE <<>>]]

NewMulti(judge_evaluations) ==
    [pc |-> "evaluated",
     judge_evaluations |-> judge_evaluations,
     consensus_evaluations |-> <<>>,
     agreement_analysis |-> <<>>]

InitMulti ==
    /\ NoRun
    /\ judging = NoJudging
    /\ tool_call_info = NoToolCall
    /\ batch = NoBatch
    /\ \E judges \in 1..MaxPanel, failed \in 0..1,
          models \in 1..MaxModels, tests \in 1..MaxTests :
          /\ judges + failed <= MaxPanel
          /\ judges * models * tests <= MaxEvaluations
          /\ \E profiles \in [1..(judges * models * tests) -> Profiles] :
                multi = NewMulti(JudgeEvaluations(judges, failed, models,
                                                  tests, profiles))

\* multi_judge.py:105-110 and 218-224: the loops that fill test_evaluations,
\* a dict of dicts: the evaluation is stored under its test_case_id and its
\* judge, in place of the one stored there before.  A dict keeps the order
\* in which its keys were first set.
Store(test_evaluations, eval_result) ==
    LET same_test == {g \in DOMAIN test_evaluations :
                         test_evaluations[g].test_id
                             = eval_result.test_case_id}
    IN IF same_test = {}
       THEN Append(test_evaluations,
                   [test_id |-> eval_result.test_case_id,
                    judge_evals |-> <<eval_result>>])
       ELSE LET g == CHOOSE g \in same_test : TRUE
                judge_evals == test_evaluations[g].judge_evals
                same_judge == {k \in DOMAIN judge_evals :
                                  judge_evals[k].judge_model
                                      = eval_result.judge_model}
            IN [test_evaluations EXCEPT
                  ![g].judge_evals =
                      IF same_judge = {}
                      THEN Append(judge_evals, eval_result)
                      ELSE [judge_evals EXCEPT
                              ![CHOOSE k \in same_judge : TRUE] = eval_result]]

RECURSIVE StoreAll(_, _)
StoreAll(test_evaluations, evaluations) ==
    IF evaluations = <<>> THEN test_evaluations
    ELSE StoreAll(Store(test_evaluations, Head(evaluations)),
                  Tail(evaluations))

RECURSIVE TestEvaluationsFrom(_, _, _)
TestEvaluationsFrom(test_evaluations, judge_evaluations, j) ==
    IF j > Len(judge_evaluations) THEN test_evaluations
    ELSE TestEvaluationsFrom(
             StoreAll(test_evaluations, judge_evaluations[j].evaluations),
             judge_evaluations, j + 1)

test_evaluations(judge_evaluations) ==
    TestEvaluationsFrom(<<>>, judge_evaluations, 1)

\* multi_judge.py:121-182: the consensus of the evaluations of one entry of
\* test_evaluations; the ids are those of the first evaluation.
ConsensusForTest(judge_evals) ==
    LET first_eval == judge_evals[1]
        consensus == _create_consensus_for_test(judge_evals)
    IN [model_id |-> first_eval.model_id,
        test_case_id |-> first_eval.test_case_id,
        scores |-> consensus.scores,
        overall_score |-> consensus.overall_score,
        additional_notes |-> consensus.additional_notes,
        judge_model |-> consensus.judge_model]

\* multi_judge.py:99-119
ConsensusEvaluations(judge_evaluations) ==
    LET grouped == test_evaluations(judge_evaluations)
    IN [g \in DOMAIN grouped |-> ConsensusForTest(grouped[g].judge_evals)]

\* a - b of two scores.
SignedDifference(a, b) ==
    Reduced(Fraction(a.num * b.den - b.num * a.den, a.den * b.den))

\* abs(a - b) of two scores.
AbsDifference(a, b) ==
    LET d == a.num * b.den - b.num * a.den
    IN Reduced(Fraction(IF d < 0 THEN 0 - d ELSE d, a.den * b.den))

\* multi_judge.py:246-247: next((s.score_value ...), 3)
ScoreValueOr3(evaluation, criteria) ==
    LET values == criteria_scores(<<evaluation>>, criteria)
    IN IF values = <<>> THEN 3 ELSE values[1]

\* multi_judge.py:236-237: the pairs judge1, judge2 of one test, judge2 after
\* judge1 in the dict, from the pair i, j on.
RECURSIVE Pairs(_, _, _)
Pairs(n, i, j) ==
    IF i >= n THEN <<>>
    ELSE IF j > n THEN Pairs(n, i + 1, i + 2)
    ELSE <<<<i, j>>>> \o Pairs(n, i, j + 1)

\* multi_judge.py:233-249: the comparisons of all tests, in order.
RECURSIVE Comparisons(_)
Comparisons(grouped) ==
    IF grouped = <<>> THEN <<>>
    ELSE LET judge_evals == Head(grouped).judge_evals
             pairs == Pairs(Len(judge_evals), 1, 2)
         IN [k \in DOMAIN pairs |->
                [eval1 |-> judge_evals[pairs[k][1]],
                 eval2 |-> judge_evals[pairs[k][2]]]]
            \o Comparisons(Tail(grouped))

Less(a, b) == a.num * b.den < b.num * a.den

\* max() of a list of scores that is not empty.
RECURSIVE MaxFraction(_)
MaxFraction(s) ==
    IF Len(s) = 1 THEN s[1]
    ELSE LET rest == MaxFraction(Tail(s))
         IN IF Less(Head(s), rest) THEN rest ELSE Head(s)

\* multi_judge.py:251-257: the statistics of one judge.
JudgeStatistics(evaluations) ==
    IF evaluations = <<>>
    THEN [avg_score |-> Fraction(0, 1), total_evaluations |-> 0]
    ELSE [avg_score |-> consensus_overall(evaluations),
          total_evaluations |-> Len(evaluations)]

\* multi_judge.py:263-269: the summary of the differences of one criterion;
\* the empty list stays when there are none.
CriterionAgreement(differences) ==
    IF differences = <<>> THEN <<>>
    ELSE <<[avg_difference |-> Fraction(Sum(differences), Len(differences)),
            max_difference |->
                CHOOSE d \in Range(differences) :
                    \A e \in Range(differences) : e <= d,
            agreements_within_1_point |->
                Fraction(Len(SelectSeq(differences, LAMBDA d : d <= 1)),
                         Len(differences))]>>

\* multi_judge.py:215-271
AgreementStats(judge_evaluations) ==
    LET compared == Comparisons(test_evaluations(judge_evaluations))
        score_differences ==
            [k \in DOMAIN compared |->
                AbsDifference(compared[k].eval1.overall_score,
                              compared[k].eval2.overall_score)]
    IN [total_comparisons |-> Len(compared),
        score_differences |-> score_differences,
        criteria_agreement |->
            [c \in Range(EvaluationCriteria) |->
                CriterionAgreement(
                    [k \in DOMAIN compared |->
                        LET d == ScoreValueOr3(compared[k].eval1, c)
                                    - ScoreValueOr3(compared[k].eval2, c)
                        IN IF d < 0 THEN 0 - d ELSE d])],
        judge_statistics |->
            [j \in DOMAIN judge_evaluations |->
                JudgeStatistics(judge_evaluations[j].evaluations)],
        avg_score_difference |->
            IF score_differences = <<>> THEN <<>>
            ELSE <<LET total == SumFractions(score_differences)
                   IN Fraction(total.num,
                               total.den * Len(score_differences))>>,
        max_score_difference |->
            IF score_differences = <<>> THEN <<>>
            ELSE <<MaxFraction(score_differences)>>]

\* multi_judge.py:315-316: main calls create_consensus_evaluation.
consensus_created ==
    /\ multi.pc = "evaluated"
    /\ multi' = [multi EXCEPT
                    !.pc = "consensus",
                    !.consensus_evaluations =
                        ConsensusEvaluations(multi.judge_evaluations)]
    /\ UNCHANGED <<executor, judging, tool_call_info, batch>>

\* multi_judge.py:318: main calls analyze_judge_agreement.
analyze_judge_agreement ==
    /\ multi.pc = "consensus"
    /\ multi' = [multi EXCEPT
                    !.pc = "analyzed",
                    !.agreement_analysis =
                        <<AgreementStats(multi.judge_evaluations)>>]
    /\ UNCHANGED <<executor, judging, tool_call_info, batch>>

NextMulti ==
    \/ consensus_created
    \/ analyze_judge_agreement

SpecMulti == InitMulti /\ [][NextMulti]_vars

\* ================================================================ claims
Terminal == {"completed", "failed"}

Running == {i \in DOMAIN model_results : model_results[i].status = "running"}

Pending == {i \in DOMAIN model_results : model_results[i].status = "pending"}

\* Coroutines inside the `async with semaphore` block.
Holders == {i \in DOMAIN task : task[i].pc \notin {"acquire", "done"}}

\* C1: at most concurrent_models model workers are running at any time;
\* a running worker holds one of the concurrent_models permits, and the
\* workers that hold none are still pending.
C1_ConcurrencyBound ==
    run_pc = "gather" =>
        /\ Cardinality(Running) <= config.concurrent_models
        /\ Running \subseteq Holders
        /\ Cardinality(Holders) + semaphore = config.concurrent_models
        /\ \A i \in DOMAIN task :
              task[i].pc = "acquire" <=> model_results[i].status = "pending"

C1_Witness ==
    /\ run_pc = "gather"
    /\ Cardinality(Running) = config.concurrent_models
    /\ config.concurrent_models = MaxConcurrent
    /\ Pending # {}

\* C2: a completed model has one TestResult per test case, in the order of
\* the test cases, whether the test succeeded, timed out or raised.
C2_ResultCompleteness ==
    \A i \in DOMAIN model_results :
        model_results[i].status = "completed" =>
            /\ Len(model_results[i].test_results) = Len(test_cases)
            /\ \A j \in 1..Len(test_cases) :
                  model_results[i].test_results[j].test_case_id = test_cases[j]

C2_Witness ==
    \E i \in DOMAIN model_results :
        /\ model_results[i].status = "completed"
        /\ Len(model_results[i].test_results) = MaxTests
        /\ \E j, k \in 1..Len(model_results[i].test_results) :
              /\ model_results[i].test_results[j].error = "Test timed out"
              /\ model_results[i].test_results[k].error = "str(e)"

\* C3: a worker runs its tests one at a time in input order: while test t is
\* in progress every earlier test has its TestResult and no later test has
\* one, and the i-th TestResult belongs to the i-th test case.
C3_SequentialTests ==
    \A i \in DOMAIN task :
        LET finished == SelectTestResults(task[i].test_results) IN
        /\ \A j \in 1..Len(finished) : finished[j].test_case_id = test_cases[j]
        /\ task[i].pc \in {"rl_sleep", "gen", "tool"} =>
              task[i].t = Len(finished) + 1
        /\ task[i].pc = "callback" => task[i].t = Len(finished)
        /\ \A j \in 1..Len(model_results[i].test_results) :
              model_results[i].test_results[j].test_case_id = test_cases[j]

C3_Witness ==
    \E i \in DOMAIN task :
        /\ task[i].pc = "gen"
        /\ task[i].stage = "initial"
        /\ task[i].t = 2
        /\ Len(task[i].test_results) >= 1
        /\ task[i].test_results[1].kind = "TestResult"
        /\ Len(task[i].test_results[1].tool_calls_made) = 1
        /\ task[i].test_results[1].model_response.content = "final"

\* C4: every generation call in flight was issued through the rate limiter
\* at least rate_limit_delay after the previous recorded request of the same
\* model; a worker sleeps exactly what its own model's last request
\* requires, and never before its first request.
C4_RateLimitSpacing ==
    \A i \in DOMAIN task :
        /\ task[i].pc = "gen" => task[i].gap >= config.rate_limit_delay
        /\ task[i].pc = "rl_sleep" =>
              /\ task[i].requests > 0
              /\ task[i].wait_time + time_since_last[ModelId(i)]
                    = config.rate_limit_delay

C4_Witness ==
    \E i, j \in DOMAIN task :
        /\ i # j
        /\ task[i].pc = "gen"
        /\ task[i].requests = 2
        /\ time_since_last[ModelId(i)] = 0
        /\ task[j].pc = "gen"
        /\ task[j].requests = 1
        /\ time_since_last[ModelId(j)] = 0

\* C5 as stated: a request after the first is issued at least
\* rate_limit_delay after the previous response completed.
C5_Original ==
    \A i \in DOMAIN task :
        (task[i].pc = "gen" /\ task[i].requests >= 2) =>
            task[i].done_gap >= config.rate_limit_delay

\* C5 amended: a request after the first is issued no earlier than the
\* previous response completed, and at least rate_limit_delay minus the time
\* that response took after it (nothing, when the response took that long).
C5_SpacingFromRequest ==
    \A i \in DOMAIN task :
        (task[i].pc = "gen" /\ task[i].requests >= 2) =>
            task[i].done_gap + task[i].prev_duration >= config.rate_limit_delay

C5_Witness ==
    \E i \in DOMAIN task :
        /\ task[i].pc = "gen"
        /\ task[i].requests >= 2
        /\ task[i].done_gap = 0
        /\ task[i].prev_duration = config.rate_limit_delay

\* The TestResult entries a worker holds for test t.
ResultsOf(i, t) ==
    {r \in Range(task[i].test_results) :
        r.kind = "TestResult" /\ r.test_case_id = test_cases[t]}

\* C6 as stated: a test whose initial generation call timed out has a
\* TestResult with error "Timeout", empty content and no tool calls.
C6_Original ==
    \A i \in DOMAIN task : \A t \in task[i].timed_out :
        /\ ResultsOf(i, t) # {}
        /\ \A r \in ResultsOf(i, t) :
              /\ r.error = "Timeout"
              /\ r.model_response.content = ""
              /\ r.tool_calls_made = <<>>
              /\ r.tool_results = <<>>

\* C6 amended: such a test has a TestResult whose model_response has error
\* "Timeout" and empty content, whose own error is "Test timed out", and
\* whose tool_calls_made and tool_results are empty.
C6_TimeoutResult ==
    \A i \in DOMAIN task : \A t \in task[i].timed_out :
        /\ ResultsOf(i, t) # {}
        /\ \A r \in ResultsOf(i, t) :
              /\ r.model_response.error = "Timeout"
              /\ r.error = "Test timed out"
              /\ r.model_response.content = ""
              /\ r.tool_calls_made = <<>>
              /\ r.tool_results = <<>>

C6_Witness ==
    \E i \in DOMAIN task :
        /\ 2 \in task[i].timed_out
        /\ task[i].pc = "done"
        /\ model_results[i].status = "completed"

\* C7 as stated: a model's status moves only pending -> running ->
\* completed | failed (an unresolvable model passes through running inside
\* one uninterrupted segment), completed and failed are final, and end_time
\* is set with the terminal status.
C7_StatusLifecycle ==
    [][\A i \in DOMAIN model_results :
          i \in DOMAIN model_results' =>
             LET old == model_results[i].status
                 new == model_results'[i].status
             IN /\ old = "pending" => new \in {"pending", "running", "failed"}
                /\ old = "running" => new \in {"running", "completed", "failed"}
                /\ old = "completed" => new = "completed"
                /\ old = "failed" => new = "failed"
                /\ new \in Terminal => model_results'[i].end_time = "set"]_vars

AfterGather == {"save", "save_failed", "returned", "raised"}

\* C8: once the workers have finished, a model id without provider or
\* configuration is failed with no TestResults, every other model is
\* terminal with a TestResult for each test case, and the run is completed:
\* it is failed only where writing the run's file raised.
C8_UnresolvableIsolated ==
    (run_pc \in AfterGather /\ run_error # "init") =>
        /\ \A i \in DOMAIN model_results :
              IF ModelId(i) \in Configured
              THEN /\ model_results[i].status \in Terminal
                   /\ Len(model_results[i].test_results) = Len(test_cases)
              ELSE /\ model_results[i].status = "failed"
                   /\ model_results[i].test_results = <<>>
        /\ run_pc = "save" => run_status = "completed"
        /\ run_error = None => run_status = "completed"

C8_Witness ==
    /\ run_pc = "returned"
    /\ run_status = "completed"
    /\ \E i, j \in DOMAIN model_results :
          /\ i < j
          /\ ModelId(i) \notin Configured
          /\ model_results[i].status = "failed"
          /\ model_results[j].status = "completed"
          /\ Len(model_results[j].test_results) = MaxTests

\* C9: while the run's status is completed every model is completed or
\* failed, and the run's status is failed only after run_benchmark's own
\* try block raised.
C9_RunCompletion ==
    /\ run_status = "completed" =>
          /\ DOMAIN model_results = DOMAIN models_to_test
          /\ \A i \in DOMAIN model_results :
                model_results[i].status \in Terminal
    /\ run_status = "failed" =>
          /\ run_error \in {"init", "save"}
          /\ run_pc \in {"save_failed", "returned", "raised"}
          /\ run_error = "save" =>
                \A i \in DOMAIN model_results :
                    model_results[i].status \in Terminal

C9_Witness ==
    /\ run_status = "completed"
    /\ run_pc = "returned"
    /\ \E i, j \in DOMAIN model_results :
          /\ model_results[i].status = "failed"
          /\ ModelId(i) \in Configured
          /\ model_results[j].status = "completed"

\* C10: once the workers are launched, model_results has one entry per
\* model id, in the order of models_to_test, and the entry of a worker that
\* has not started yet is pending and empty.
C10_ModelResultsAligned ==
    run_pc \in {"gather"} \cup AfterGather /\ run_error # "init" =>
        /\ Len(model_results) = Len(models_to_test)
        /\ \A i \in DOMAIN models_to_test :
              /\ model_results[i].model_id = models_to_test[i]
              /\ task[i].pc = "acquire" =>
                    /\ model_results[i].status = "pending"
                    /\ model_results[i].test_results = <<>>

C10_Witness ==
    /\ run_pc = "returned"
    /\ Len(models_to_test) = MaxModels
    /\ models_to_test[1] = "ghost"
    /\ Len(model_results) = MaxModels

\* C11 as stated: in the order the snapshots are passed to the callback,
\* completed_tests and the percentage never decrease, and completed_tests
\* never exceeds total_tests.
C11_ProgressMonotonic ==
    [][/\ progress'.completed_tests <= progress'.total_tests
       /\ progress'.completed_tests >= progress.completed_tests
       /\ progress'.progress_percentage >= progress.progress_percentage]_vars

\* C12 as stated: when run_benchmark is over it has called the write of the
\* BenchmarkRun exactly once, and the file holds the run's final status.
C12_Original ==
    run_pc \in {"returned", "raised"} =>
        /\ storage.save_calls = 1
        /\ storage.runs = <<run_status>>

\* C12 amended: a run_benchmark that returns has written the BenchmarkRun
\* exactly once, with the status it returns, and no file is written before
\* the status is terminal; a write that raised under status completed is
\* followed by the one write under status failed, and run_benchmark raises
\* with nothing written when that write raises as well.
C12_WrittenOnce ==
    /\ run_pc = "returned" =>
          /\ storage.runs = <<run_status>>
          /\ run_status \in Terminal
          /\ storage.save_calls = IF run_error = "save" THEN 2 ELSE 1
    /\ run_pc = "raised" =>
          /\ storage.runs = <<>>
          /\ run_status = "failed"
    /\ run_pc \notin {"returned", "raised"} => storage.runs = <<>>
    /\ storage.save_calls <= 2

C12_Witness ==
    /\ run_pc = "returned"
    /\ storage.save_calls = 2
    /\ storage.runs = <<"failed">>
    /\ \E i \in DOMAIN model_results : model_results[i].status = "completed"

\* C13 as stated: with save_intermediate_results enabled, a worker that has
\* released its permit, with its model completed or failed, has written the
\* model's intermediate file.
C13_PersistedOnFinish ==
    config.save_intermediate_results =>
        \A i \in DOMAIN task :
            (task[i].pc = "done" /\ model_results[i].status \in Terminal) =>
                task[i].saved >= 1

\* TestResults a worker holds: in its local list, or stored for its model.
HeldResults(i) ==
    Range(SelectTestResults(task[i].test_results))
        \cup Range(model_results[i].test_results)

\* C14 as stated: tool_results has exactly one record for every tool call of
\* the response, in the order of the calls: the j-th record is the record of
\* the j-th call, while the tool loop runs and in the TestResult it ends
\* with; that TestResult has no top-level error.
C14_OneRecordPerToolCall ==
    \A i \in DOMAIN task :
        /\ task[i].pc = "tool" =>
              /\ Len(task[i].tool_results) = task[i].k - 1
              /\ \A j \in DOMAIN task[i].tool_results :
                    task[i].tool_results[j].call = j
        /\ \A r \in HeldResults(i) :
              r.model_response.error = None =>
                 /\ r.error = None
                 /\ \A j \in DOMAIN r.tool_results :
                       r.tool_results[j].call = j

\* The worker has copied its TestResults to its model's entry.
Copied(i) == task[i].pc \in {"save", "update"}
                \/ (task[i].pc = "done" /\ ModelId(i) \in Configured)

LastEvaluation == judging.evaluations[Len(judging.evaluations)]

\* The judge call did not give a text that json.loads accepts.
Unparsed ==
    \/ judging.outcome \in {"raised", "timeout"}
    \/ /\ judging.outcome \in {"response", "raw"}
       /\ ~json_loads(ExtractJson(judging.content)).ok

\* C16: evaluate_test_result always returns an EvaluationResult; when the
\* judge call raised or timed out, or its response is no JSON after the
\* recovery of the object, the result has overall_score 3.0 and exactly five
\* criteria scores, one for each criterion in the order of the enum, each at
\* level satisfactory with score_value 3.
C16_FallbackOnFailure ==
    /\ judging.pc \in {"returned", "consensus"} <=> judging.outcome # None
    /\ judging.outcome # None => judging.evaluations # <<>>
    /\ (judging.pc = "returned" /\ Unparsed) =>
          /\ SameNumber(LastEvaluation.overall_score, Fraction(3, 1))
          /\ Len(LastEvaluation.scores) = 5
          /\ \A n \in 1..5 :
                /\ LastEvaluation.scores[n].criteria = EvaluationCriteria[n]
                /\ LastEvaluation.scores[n].score = "satisfactory"
                /\ LastEvaluation.scores[n].score_value = 3

C16_Witness ==
    /\ judging.pc = "returned"
    /\ judging.outcome = "timeout"
    /\ Len(judging.evaluations) = 2
    /\ SameNumber(judging.evaluations[1].overall_score, Fraction(5, 1))
    /\ SameNumber(LastEvaluation.overall_score, Fraction(3, 1))
    /\ Len(LastEvaluation.scores) = 5

\* Every CriteriaScore the judges and the consensus hold.
AllCriteriaScores ==
    UNION ({Range(judging.evaluations[n].scores) :
               n \in DOMAIN judging.evaluations}
           \cup {Range(judging.consensus[n].scores) :
                    n \in DOMAIN judging.consensus})

\* C17: every CriteriaScore built from a judge response, by the fallback or
\* for the consensus has a level of ScoreLevel and the score_value that
\* SCORE_VALUES gives for this level: excellent 5, good 4, satisfactory 3,
\* poor 2, very_poor 1.
C17_ScoreValueCanonical ==
    \A cs \in AllCriteriaScores :
        /\ cs.score \in ScoreLevel
        /\ cs.score_value =
              (CASE cs.score = "excellent" -> 5
                 [] cs.score = "good" -> 4
                 [] cs.score = "satisfactory" -> 3
                 [] cs.score = "poor" -> 2
                 [] cs.score = "very_poor" -> 1)

C17_Witness ==
    /\ judging.pc = "consensus"
    /\ Len(judging.evaluations) = 2
    /\ judging.evaluations[1].scores
          = <<[criteria |-> "tool_usage", score |-> "excellent",
               reasoning |-> "given", score_value |-> 5]>>
    /\ judging.outcome = "raised"
    /\ Len(judging.evaluations[2].scores) = 5
    /\ \E n \in DOMAIN judging.consensus[1].scores :
          judging.consensus[1].scores[n]
             = [criteria |-> "tool_usage", score |-> "good",
                reasoning |-> "Consensus", score_value |-> 4]

\* A member that is one of the five criteria with a score on the 1-5 scale.
WellFormed(member) ==
    /\ member.key \in Range(CriterionKeys)
    /\ member.value \in {"1", "2", "3", "4", "5", "g"}

\* A member whose key is no criterion, or a criterion whose score is not on
\* the 1-5 scale: an integer out of range, a string that is no level, no
\* score at all, or a value that is not an object.
Malformed(member) ==
    \/ member.key = "X"
    \/ /\ member.key \in Range(CriterionKeys)
       /\ member.value \in {"9", "?", "m", "i"}

GivenLevel(member) ==
    IF member.value = "g" THEN "good" ELSE score_mapping(IntOf(member.value))

\* C18: when the response is a JSON object with one malformed member and
\* well-formed members otherwise, the evaluation holds, for every well-formed
\* member, a score of its criterion at the level the judge gave, and a
\* malformed member that names a criterion is recorded at satisfactory with
\* the note of the parse failure.
C18_MalformedEntryIsolated ==
    (/\ judging.pc = "returned"
     /\ judging.outcome = "response"
     /\ Cardinality({n \in DOMAIN judging.response.members :
                        Malformed(judging.response.members[n])}) = 1
     /\ \A n \in DOMAIN judging.response.members :
           \/ Malformed(judging.response.members[n])
           \/ WellFormed(judging.response.members[n]))
    => \A n \in DOMAIN judging.response.members :
          LET member == judging.response.members[n]
          IN \E k \in DOMAIN LastEvaluation.scores :
                LET cs == LastEvaluation.scores[k]
                IN IF WellFormed(member)
                   THEN /\ cs.criteria = KeyName(member.key)
                        /\ cs.score = GivenLevel(member)
                        /\ cs.reasoning = "given"
                   ELSE member.key \in Range(CriterionKeys) =>
                           /\ cs.criteria = KeyName(member.key)
                           /\ cs.score = "satisfactory"
                           /\ cs.reasoning = "Failed to parse score"

\* The criteria a list of scores holds.
Present(scores) == {scores[n].criteria : n \in DOMAIN scores}

\* The score_value a list of scores holds for a criterion.
ValueOf(scores, c) ==
    scores[CHOOSE n \in DOMAIN scores : scores[n].criteria = c].score_value

\* The sum of term[c] over the criteria of a set.
RECURSIVE SumOver(_, _)
SumOver(term, criteria) ==
    IF criteria = {} THEN 0
    ELSE LET c == CHOOSE c \in criteria : TRUE
         IN term[c] + SumOver(term, criteria \ {c})

\* The weight, in hundredths, the configuration gives a criterion: 0.2 when
\* it names none.
WeightOf(c) ==
    IF c \in DOMAIN judging.criteria_weights
    THEN judging.criteria_weights[c]
    ELSE 20

\* The scores of the example: 5, 3, 4, 4 and 2 in the order of the enum.
ExampleScores ==
    [n \in 1..5 |->
        CriteriaScore([criteria |-> EvaluationCriteria[n],
                       score |-> score_mapping(<<5, 3, 4, 4, 2>>[n]),
                       reasoning |-> "given"])]

\* C19: the overall_score of an evaluation with scores is the sum of
\* weight * score_value divided by the sum of the weights, both taken over
\* exactly the criteria the evaluation holds; the scores 5, 3, 4, 4, 2 with
\* the default weights give 3.75.
C19_WeightedAverage ==
    /\ \A k \in DOMAIN judging.evaluations :
          LET scores == judging.evaluations[k].scores
              criteria == Present(scores)
          IN scores # <<>> =>
                /\ Cardinality(criteria) = Len(scores)
                /\ SumOver([c \in criteria |-> WeightOf(c)], criteria) > 0
                /\ judging.evaluations[k].overall_score.num
                      * SumOver([c \in criteria |-> WeightOf(c)], criteria)
                   = judging.evaluations[k].overall_score.den
                      * SumOver([c \in criteria |->
                                    WeightOf(c) * ValueOf(scores, c)],
                                criteria)
    /\ LET overall == _calculate_weighted_score(DefaultWeights, ExampleScores)
       IN overall.num * 100 = 375 * overall.den

C19_Witness ==
    /\ judging.pc = "returned"
    /\ judging.outcome = "response"
    /\ judging.criteria_weights = DefaultWeights
    /\ Len(LastEvaluation.scores) = 2
    /\ LastEvaluation.scores[1].criteria = "task_performance"
    /\ LastEvaluation.scores[1].score_value = 5
    /\ LastEvaluation.scores[2].criteria = "factual_accuracy"
    /\ LastEvaluation.scores[2].score_value = 2
    /\ LastEvaluation.overall_score.num * 45
          = LastEvaluation.overall_score.den * (5 * 30 + 2 * 15)

\* The evaluation of the object of the last response, given alone.
AloneEvaluation ==
    _parse_evaluation_response(ObjectText(judging.response.members),
                               judging.criteria_weights,
                               LastEvaluation.judge_model)

\* C20: for a response made of text without braces, one JSON object and
\* text without braces, with or without the lines of a code block around
\* the object, _parse_evaluation_response gives the criteria scores and the
\* overall_score it gives for the object alone.
C20_WrapperIgnored ==
    (judging.pc = "returned" /\ judging.outcome = "response") =>
        /\ judging.content
              = judging.response.lead
                   \o ObjectText(judging.response.members)
                   \o judging.response.trail
        /\ ExtractJson(judging.content)
              = ObjectText(judging.response.members)
        /\ LastEvaluation.scores = AloneEvaluation.scores
        /\ LastEvaluation.overall_score = AloneEvaluation.overall_score

C20_Witness ==
    /\ judging.pc = "returned"
    /\ judging.outcome = "response"
    /\ judging.response.lead = <<"x", " ">> \o FenceJson \o <<" ">>
    /\ judging.response.trail = <<" ">> \o Fence \o <<" ", "x">>
    /\ judging.content # ObjectText(judging.response.members)
    /\ Len(LastEvaluation.scores) = 1
    /\ LastEvaluation.scores[1].score = "poor"
    /\ LastEvaluation.additional_notes = None

\* ------------------------------------------------- executor claims, again
\* C25: a test with a follow-up generation call that timed out has the
\* timeout TestResult of a timed-out initial call: model_response with error
\* "Timeout" and empty content, error "Test timed out", and neither tool
\* calls nor tool results.
C25_FollowupTimeout ==
    \A i \in DOMAIN task : \A t \in task[i].followup_timed_out :
        \A r \in ResultsOf(i, t) :
            /\ r.model_response.error = "Timeout"
            /\ r.error = "Test timed out"
            /\ r.model_response.content = ""
            /\ r.tool_calls_made = <<>>
            /\ r.tool_results = <<>>

\* The JSON value the arguments string of the first tool call starts with,
\* after whitespace.
FirstValue == scan_once(tool_call_info.first.arguments,
                        skip_ws(tool_call_info.first.arguments, 1))

\* The string is a JSON object with something that is no whitespace after
\* it (arguments that are no object are no arguments of a ToolCall).
TrailingGarbage ==
    /\ tool_call_info.first.is_str
    /\ FirstValue.ok
    /\ FirstValue.value[1] = "{"
    /\ \/ FirstValue.cut
       \/ skip_ws(tool_call_info.first.arguments, FirstValue.end)
             <= Len(tool_call_info.first.arguments)

\* The string starts with no JSON value.
Unrecoverable == tool_call_info.first.is_str /\ ~FirstValue.ok

\* The loop is past the construction of the first ToolCall.
FirstBuilt ==
    tool_call_info.pc \in {"tool", "followup", "done"} \/ tool_call_info.k > 1

\* C26: an arguments string that is a JSON object followed by garbage is
\* recovered as that object, and the tool is executed with it: it is the
\* arguments of the ToolCall in execution and of the first entry of
\* tool_calls_made.  A string that starts with no JSON value gives an error
\* record as the first tool result, no entry in tool_calls_made, no
\* execution and no follow-up call, and the loop goes to the next tool call.
C26_ArgumentsRecovered ==
    LET l == tool_call_info IN
    /\ (TrailingGarbage /\ FirstBuilt) =>
          IF l.k = 1 /\ l.pc = "tool"
          THEN l.tool_call = FirstValue.value
          ELSE /\ l.tool_calls_made # <<>>
               /\ l.tool_calls_made[1] = FirstValue.value
    /\ (Unrecoverable /\ FirstBuilt) =>
          /\ l.k > 1
          /\ l.tool_results[1] = "error"
          /\ l.executions = (IF l.pc \in {"loop", "done"} THEN l.k - 2
                             ELSE l.k - 1)
          /\ Len(l.tool_calls_made) = l.followups
          /\ l.followups = (IF l.pc = "tool" THEN l.executions - 1
                            ELSE l.executions)

\* C27: whether a progress callback returns or raises makes no difference
\* to the model it is called for: the step out of the per-test callback and
\* the step out of the callback of the final update leave the model's status,
\* its stored test_results and the TestResults of the worker's local list as
\* a normal return of the callback leaves them.
C27_CallbackNoInfluence ==
    [][\A i \in DOMAIN task :
          /\ (task[i].pc = "callback" /\ task'[i].pc # "callback") =>
                LET returned == CallbackReturned(Ctx(i), FALSE)
                IN /\ model_results'[i].status = returned.mr.status
                   /\ model_results'[i].test_results = returned.mr.test_results
                   /\ SelectTestResults(task'[i].test_results)
                         = SelectTestResults(returned.w.test_results)
          /\ (task[i].pc = "update" /\ task'[i].pc # "update") =>
                LET returned == ReleaseAndReturn(Ctx(i))
                IN /\ model_results'[i].status = returned.mr.status
                   /\ model_results'[i].test_results
                         = returned.mr.test_results]_vars

\* C29: a test issues at most 1 + n generation calls, n being the number of
\* tool calls of its initial response: the calls issued are the initial one
\* and one follow-up per tool call that execute_tool_call was called for, a
\* follow-up is issued without tool declarations, no more tool calls are
\* executed than the initial response holds (those of a follow-up response
\* never are), and with tool execution disabled a test issues one generation
\* call and executes no tool.
C29_GenerationCallsBounded ==
    \A i \in DOMAIN task :
        LET w == task[i] IN
        /\ w.calls <= 1 + Len(w.tool_calls_made)
        /\ w.response # NoResponse =>
              /\ Len(w.tool_calls_made) <= Len(w.response.tool_calls)
              /\ w.calls <= 1 + Len(w.response.tool_calls)
        /\ w.pc = "gen" =>
              /\ w.calls = 1 + Len(w.tool_calls_made)
              /\ w.stage = "followup" => tools(w.stage) = None
        /\ w.pc = "tool" => w.calls = 1 + Len(w.tool_calls_made)
        /\ ~config.include_tool_execution =>
              /\ w.calls <= 1
              /\ w.pc # "tool"
              /\ w.tool_calls_made = <<>>
              /\ w.pc = "gen" => w.calls = 1 /\ w.stage = "initial"

\* A follow-up call is in flight: the second generation call of a test whose
\* initial response held one tool call, which was executed.
C29_Witness ==
    \E i \in DOMAIN task :
        /\ task[i].pc = "gen"
        /\ task[i].stage = "followup"
        /\ task[i].calls = 2
        /\ Len(task[i].response.tool_calls) = 1
        /\ Len(task[i].tool_calls_made) = 1

\* run_benchmark returned or raised, every model is completed or failed and
\* every permit of the semaphore is back.
Terminated ==
    /\ run_pc \in {"returned", "raised"}
    /\ \A i \in DOMAIN model_results :
          model_results[i].status \in {"completed", "failed"}
    /\ task # <<>> => semaphore = config.concurrent_models

C21_SequentialWithDelay ==
    /\ batch.in_flight <= 1
    /\ batch.pc = "call" => batch.gap >= JudgeDelay

\* The test_results of the evaluated run before those of the m-th model.
ResultsBefore(m) ==
    Sum([k \in 1..(m - 1) |-> Len(batch.model_results[k].test_results)])

\* C22: the results of evaluate_benchmark_run hold one EvaluationResult per
\* TestResult of the run, those of a model together and in the order of
\* model_results, those of one model in the order of its test_results; the
\* evaluation of a TestResult whose test case the run does not hold has an
\* empty expected_behavior.
C22_OneEvaluationPerResult ==
    batch.pc = "done" =>
        LET run == batch.model_results
            results == batch.all_evaluations
        IN /\ Len(results) = ResultsBefore(Len(run) + 1)
           /\ \A m \in DOMAIN run :
                 \A i \in DOMAIN run[m].test_results :
                    LET evaluation == results[ResultsBefore(m) + i]
                        test_case_id == run[m].test_results[i]
                    IN /\ evaluation.model_id = run[m].model_id
                       /\ evaluation.test_case_id = test_case_id
                       /\ evaluation.expected_behavior =
                             IF test_case_id \in RunTestCases
                             THEN test_case_id ELSE ""

\* A run of two models with results has been evaluated, a TestResult
\* without a test case among them.
C22_Witness ==
    /\ batch.pc = "done"
    /\ Cardinality({m \in DOMAIN batch.model_results :
                       batch.model_results[m].test_results # <<>>}) >= 2
    /\ Len(batch.all_evaluations) >= 3
    /\ \E n \in DOMAIN batch.all_evaluations :
          /\ batch.all_evaluations[n].test_case_id = "tc_missing"
          /\ batch.all_evaluations[n].expected_behavior = ""

\* ------------------------------------------------------ multi judge claims
\* The evaluations each consensus evaluation was built from.
Combined == test_evaluations(multi.judge_evaluations)

\* C23: in every consensus evaluation, a criterion that at least one of the
\* combined evaluations scores has one consensus score: an integer of 1..5
\* that is no further than one half from the mean of the judges' values and
\* lies between the smallest and the largest of them, with the level of that
\* integer; a criterion that none of them scores has no consensus score.
C23_ConsensusRounded ==
    multi.pc \in {"consensus", "analyzed"} =>
        \A g \in DOMAIN multi.consensus_evaluations :
            LET scores == multi.consensus_evaluations[g].scores
                evals == Combined[g].judge_evals
            IN /\ Cardinality(Present(scores)) = Len(scores)
               /\ \A c \in Range(EvaluationCriteria) :
                     LET judges == {k \in DOMAIN evals :
                                       c \in Present(evals[k].scores)}
                         value == [k \in judges |-> ValueOf(evals[k].scores, c)]
                         total == SumOver(value, judges)
                         n == Cardinality(judges)
                     IN IF judges = {} THEN c \notin Present(scores)
                        ELSE /\ c \in Present(scores)
                             /\ LET v == ValueOf(scores, c)
                                IN /\ v \in 1..5
                                   /\ 2 * (v * n - total) <= n
                                   /\ 2 * (total - v * n) <= n
                                   /\ \E k \in judges : value[k] <= v
                                   /\ \E k \in judges : value[k] >= v
                                   /\ \E k \in DOMAIN scores :
                                         /\ scores[k].criteria = c
                                         /\ SCORE_VALUES[scores[k].score] = v

\* Three judges evaluated one test, one of them scored one criterion only,
\* and a criterion that one judge gave 4 has the consensus 5: the mean of 5,
\* 5 and 4 is rounded up.
C23_Witness ==
    /\ multi.pc = "consensus"
    /\ \E g \in DOMAIN multi.consensus_evaluations :
          LET scores == multi.consensus_evaluations[g].scores
              evals == Combined[g].judge_evals
          IN /\ Len(evals) = 3
             /\ \E c \in Present(scores) :
                   /\ ValueOf(scores, c) = 5
                   /\ \E k \in DOMAIN evals :
                         /\ c \in Present(evals[k].scores)
                         /\ ValueOf(evals[k].scores, c) = 4
             /\ \E k \in DOMAIN evals : Len(evals[k].scores) = 1

\* The evaluations judge j holds of a test_case_id.
EvaluationsOf(j, test_case_id) ==
    SelectSeq(multi.judge_evaluations[j].evaluations,
              LAMBDA e : e.test_case_id = test_case_id)

\* The test_case_ids and the (model_id, test_case_id) pairs the judges
\* evaluated, and the judges that evaluated one.
JudgedTests ==
    {e.test_case_id :
        e \in UNION {Range(multi.judge_evaluations[j].evaluations) :
                        j \in DOMAIN multi.judge_evaluations}}

JudgedPairs ==
    {<<e.model_id, e.test_case_id>> :
        e \in UNION {Range(multi.judge_evaluations[j].evaluations) :
                        j \in DOMAIN multi.judge_evaluations}}

JudgesOfTest(test_case_id) ==
    {j \in DOMAIN multi.judge_evaluations :
        EvaluationsOf(j, test_case_id) # <<>>}

\* The unordered pairs of different members of a set.
PairsOf(S) == {P \in SUBSET S : Cardinality(P) = 2}

Analysis == multi.agreement_analysis[1]

\* C24: analyze_judge_agreement makes one comparison for every test case
\* and every two judges that both evaluated it, total_comparisons and the
\* length of score_differences are the number of these; where each of the
\* two judges holds one evaluation of the test case, the difference recorded
\* is the absolute difference of their overall_scores; and the avg_score of
\* a judge with evaluations is the mean of its overall_scores (which are
\* whole hundredths here).  Overall scores of 4.0 and 2.0 give the
\* difference 2.0.
C24_AgreementStatistics ==
    /\ multi.pc = "analyzed" =>
          LET compared == Comparisons(Combined)
              differences == Analysis.score_differences
          IN /\ Analysis.total_comparisons
                   = SumOver([t \in JudgedTests |->
                                 Cardinality(PairsOf(JudgesOfTest(t)))],
                             JudgedTests)
             /\ Len(differences) = Analysis.total_comparisons
             /\ \A t \in JudgedTests :
                   \A P \in PairsOf(JudgesOfTest(t)) :
                      LET found == {k \in DOMAIN compared :
                                       /\ compared[k].eval1.test_case_id = t
                                       /\ {compared[k].eval1.judge_model,
                                           compared[k].eval2.judge_model} = P}
                      IN /\ Cardinality(found) = 1
                         /\ (\A j \in P : Len(EvaluationsOf(j, t)) = 1) =>
                               \A k \in found :
                                  \E a, b \in P :
                                     /\ a # b
                                     /\ LET x == EvaluationsOf(a, t)[1].overall_score
                                            y == EvaluationsOf(b, t)[1].overall_score
                                        IN /\ ~Less(x, y)
                                           /\ differences[k].num * x.den * y.den
                                                 = differences[k].den
                                                     * (x.num * y.den
                                                          - y.num * x.den)
             /\ \A j \in DOMAIN multi.judge_evaluations :
                   LET evaluations == multi.judge_evaluations[j].evaluations
                       avg_score == Analysis.judge_statistics[j].avg_score
                       hundredths ==
                           [n \in DOMAIN evaluations |->
                               (evaluations[n].overall_score.num * 100)
                                  \div evaluations[n].overall_score.den]
                   IN evaluations # <<>> =>
                         avg_score.num * 100 * Len(evaluations)
                            = avg_score.den
                                 * SumOver(hundredths, DOMAIN evaluations)
    /\ SameNumber(AbsDifference(Fraction(4, 1), Fraction(2, 1)),
                  Fraction(2, 1))

\* Two judges evaluated one test with overall scores of 4.0 and 2.0, and
\* the analysis holds the one difference 2.0 and the means 4.0 and 2.0.
C24_Witness ==
    /\ multi.pc = "analyzed"
    /\ Len(multi.judge_evaluations) = 2
    /\ Analysis.total_comparisons = 1
    /\ SameNumber(multi.judge_evaluations[1].evaluations[1].overall_score,
                  Fraction(4, 1))
    /\ SameNumber(multi.judge_evaluations[2].evaluations[1].overall_score,
                  Fraction(2, 1))
    /\ SameNumber(Analysis.score_differences[1], Fraction(2, 1))
    /\ SameNumber(Analysis.judge_statistics[1].avg_score, Fraction(4, 1))
    /\ SameNumber(Analysis.judge_statistics[2].avg_score, Fraction(2, 1))

\* The judges that evaluated the TestResult of a model and a test case.
JudgesOfPair(pair) ==
    {j \in DOMAIN multi.judge_evaluations :
        \E e \in Range(multi.judge_evaluations[j].evaluations) :
            <<e.model_id, e.test_case_id>> = pair}

\* C30: create_consensus_evaluation returns one consensus evaluation for
\* every (model_id, test_case_id) the judges evaluated, built of all the
\* evaluations of that model and test case and of no other, and
\* analyze_judge_agreement compares two judges once for every
\* (model_id, test_case_id) both evaluated.
C30_KeyedByModelAndTest ==
    /\ multi.pc \in {"consensus", "analyzed"} =>
          /\ Len(multi.consensus_evaluations) = Cardinality(JudgedPairs)
          /\ \A pair \in JudgedPairs :
                \E g \in DOMAIN multi.consensus_evaluations :
                   /\ <<multi.consensus_evaluations[g].model_id,
                        multi.consensus_evaluations[g].test_case_id>> = pair
                   /\ {e.judge_model : e \in Range(Combined[g].judge_evals)}
                         = JudgesOfPair(pair)
                   /\ \A e \in Range(Combined[g].judge_evals) :
                         <<e.model_id, e.test_case_id>> = pair
    /\ multi.pc = "analyzed" =>
          Analysis.total_comparisons
             = SumOver([pair \in JudgedPairs |->
                           Cardinality(PairsOf(JudgesOfPair(pair)))],
                       JudgedPairs)

====
